---------------------------- MODULE Spec2Model ----------------------------
(***************************************************************************)
(* Session-record normalizer, gap filler and ingest adapters of the        *)
(* mentor-scoring backend (src/models.py, src/app.py,                      *)
(* src/ingest_session_from_files.py).                                      *)
(*                                                                         *)
(* Python values are tagged records [t |-> tag, v |-> payload]:            *)
(*   "null"  None                 "int"   int (payload: the integer)       *)
(*   "float" float (payload: the value in tenths, 37 is 3.7)               *)
(*   "str"   str                  "list"  list (payload: a sequence)       *)
(*   "map"   dict (payload: a function from the keys to values)            *)
(*   "date"  datetime (payload: epoch milliseconds)                        *)
(*   "oid"   bson ObjectId (payload: its hex string)                       *)
(* and "raise" stands for an exception leaving the function.               *)
(***************************************************************************)
EXTENDS Integers, Sequences, FiniteSets, TLC

VARIABLES
    npc,        \* normalizer run: "start", "normalized", "renormalized", "raised"
    raw,        \* the raw payload handed to Session.prepare_for_insert
    out,        \* what prepare_for_insert(raw) returned (or Raise)
    out2,       \* what prepare_for_insert(out) returned (or Raise)
    fpc,        \* gap-filler run: "idle", "start", "filled", "feedback"
    fdoc,       \* the record handed to the gap filler
    fenv,       \* the collaborator's setup: "ok", "no_key", "client_error"
    fresp,      \* what the generate request answered
    fres,       \* the result of the gap-filling call
    ipc,        \* ingest run: "idle", "start", "built"
    ianalysis,  \* the raw analysis output handed to an ingest adapter
    iadapter,   \* the adapter that ran
    imetrics,   \* the metrics list it built (or Raise)
    api,        \* normalizer run: the public view of the normalized record
    store,      \* the sessions collection: the stored documents, in insertion order
    clock,      \* what datetime.utcnow() returns next, in epoch milliseconds
    indexed,    \* whether the unique index on sessionId exists
    reply,      \* what the last operation on the collection answered
    wpc,        \* concurrent writers: where each writer of stored sessions is
    wlocal,     \* concurrent writers: the local variables of each writer
    users,      \* the users collection: the stored user documents
    rpc,        \* register requests: where each request is
    rlocal,     \* register requests: the local variables of each request
    uploaded,   \* the sessions list in the uploaded-sessions file
    upc,        \* analyze requests: where each request is
    ulocal,     \* analyze requests: the local variables of each request
    peers,      \* mentor snapshot: the scored sessions of every mentor
    snapshot    \* mentor snapshot: what get_mentor_snapshot computed

normVars == <<npc, raw, out, out2, api>>
fillVars == <<fpc, fdoc, fenv, fresp, fres>>
ingestVars == <<ipc, ianalysis, iadapter, imetrics>>
storeVars == <<store, clock, indexed, reply>>
writerVars == <<wpc, wlocal>>
registerVars == <<users, rpc, rlocal>>
uploadVars == <<uploaded, upc, ulocal>>
snapshotVars == <<peers, snapshot>>
lateVars == <<writerVars, registerVars, uploadVars, snapshotVars>>
vars == <<npc, raw, out, out2, api, fpc, fdoc, fenv, fresp, fres, ipc, ianalysis, iadapter,
          imetrics, store, clock, indexed, reply, wpc, wlocal, users, rpc, rlocal, uploaded,
          upc, ulocal, peers, snapshot>>

---------------------------------------------------------------------------
(* Python values *)

Null == [t |-> "null", v |-> 0]
Raise == [t |-> "raise", v |-> 0]
I(n) == [t |-> "int", v |-> n]
F(tenths) == [t |-> "float", v |-> tenths]
S(s) == [t |-> "str", v |-> s]
L(q) == [t |-> "list", v |-> q]
M(f) == [t |-> "map", v |-> f]
Date(ms) == [t |-> "date", v |-> ms]
Oid(hex) == [t |-> "oid", v |-> hex]

EmptyMap == <<>>

IsMap(x) == x.t = "map"
IsList(x) == x.t = "list"
IsRaise(x) == x.t = "raise"

\* bool(x): None, 0, 0.0, '', [] and {} are falsy
Truthy(x) ==
    CASE x.t = "null" -> FALSE
      [] x.t = "int" -> x.v # 0
      [] x.t = "float" -> x.v # 0
      [] x.t = "str" -> x.v # ""
      [] x.t = "list" -> Len(x.v) > 0
      [] x.t = "map" -> DOMAIN x.v # {}
      [] OTHER -> TRUE

\* a or b
Or(a, b) == IF Truthy(a) THEN a ELSE b

\* d.get(k) and d.get(k, dflt) on the payload of a dict
Get(f, k) == IF k \in DOMAIN f THEN f[k] ELSE Null
GetD(f, k, dflt) == IF k \in DOMAIN f THEN f[k] ELSE dflt

\* d[k] = x and d.setdefault(k, x) on the payload of a dict
Put(f, k, x) == (k :> x) @@ f
SetDefault(f, k, x) == IF k \in DOMAIN f THEN f ELSE Put(f, k, x)

\* the decimal literals that occur in the payloads, with their values
IntLiteral == ("0" :> 0) @@ ("7" :> 7) @@ ("42" :> 42) @@ ("-5" :> -5) @@ ("150" :> 150)
\* the literals float() accepts and int() does not, in tenths
FloatLiteral == ("3.7" :> 37) @@ ("-0.5" :> -5)

TruncDiv(a, b) == IF a >= 0 THEN a \div b ELSE -((-a) \div b)

\* int(x): the integer, or Raise (ValueError, TypeError)
PyInt(x) ==
    CASE x.t = "int" -> x
      [] x.t = "float" -> I(TruncDiv(x.v, 10))
      [] x.t = "str" -> IF x.v \in DOMAIN IntLiteral THEN I(IntLiteral[x.v]) ELSE Raise
      [] OTHER -> Raise

\* float(x): the float, or Raise
PyFloat(x) ==
    CASE x.t = "int" -> F(10 * x.v)
      [] x.t = "float" -> x
      [] x.t = "str" -> IF x.v \in DOMAIN IntLiteral THEN F(10 * IntLiteral[x.v])
                        ELSE IF x.v \in DOMAIN FloatLiteral THEN F(FloatLiteral[x.v])
                        ELSE Raise
      [] OTHER -> Raise

\* try: int(x) / except Exception: dflt
IntOrDefault(x, dflt) == IF IsRaise(PyInt(x)) THEN dflt ELSE PyInt(x)
FloatOrDefault(x, dflt) == IF IsRaise(PyFloat(x)) THEN dflt ELSE PyFloat(x)

Digit == <<"0", "1", "2", "3", "4", "5", "6", "7", "8", "9">>
RECURSIVE NatStr(_)
NatStr(n) == IF n < 10 THEN Digit[n + 1] ELSE NatStr(n \div 10) \o Digit[(n % 10) + 1]

\* str(x) for the values an identifier field holds
PyStr(x) ==
    CASE x.t = "str" -> x.v
      [] x.t = "int" -> IF x.v < 0 THEN "-" \o NatStr(-x.v) ELSE NatStr(x.v)
      [] x.t = "null" -> "None"
      [] x.t = "oid" -> x.v
      [] OTHER -> "<repr>"

\* what a for loop over x visits: the elements of a list, the keys of a dict,
\* the characters of a str (the payloads use strings of at most one
\* character in these places); Raise for a value that is not iterable
Iterate(x) ==
    CASE x.t = "list" -> L(x.v)
      [] x.t = "str" -> IF x.v = "" THEN L(<<>>) ELSE L(<<S(x.v)>>)
      [] x.t = "map" -> IF DOMAIN x.v = {} THEN L(<<>>)
                        ELSE L(<<S(CHOOSE k \in DOMAIN x.v : TRUE)>>)
      [] OTHER -> Raise

---------------------------------------------------------------------------
(* Session.prepare_for_insert (src/models.py) *)

\* the 24-digit hex strings of the payloads: what bson's ObjectId accepts
ValidOidHex == {"64b7f0c2a1d3e4f5a6b7c8d9"}

\* try: int(x) / except Exception: int(float(x))
IntOrIntOfFloat(x) ==
    IF ~IsRaise(PyInt(x)) THEN PyInt(x)
    ELSE IF IsRaise(PyFloat(x)) THEN Raise
    ELSE PyInt(PyFloat(x))

\* try: ObjectId(x) / except Exception: x.  ObjectId(None) makes a fresh id.
ObjectIdOrRaw(x) ==
    CASE x.t = "str" /\ x.v \in ValidOidHex -> Oid(x.v)
      [] x.t = "oid" -> x
      [] x.t = "null" -> Oid("<generated>")
      [] OTHER -> x

\* datetime.utcfromtimestamp(int(x) / 1000.0), None when int() raises
DateOrNone(x) == IF IsRaise(PyInt(x)) THEN Null ELSE Date(PyInt(x).v)

UnwrapDate(d) ==
    IF IsMap(d) /\ "$numberLong" \in DOMAIN d.v
    THEN DateOrNone(d.v["$numberLong"])
    ELSE DateOrNone(d)

RECURSIVE _unwrap(_)
_unwrap(val) ==
    IF IsMap(val) THEN
        IF "$numberInt" \in DOMAIN val.v THEN IntOrIntOfFloat(val.v["$numberInt"])
        ELSE IF "$numberLong" \in DOMAIN val.v THEN IntOrIntOfFloat(val.v["$numberLong"])
        ELSE IF "$oid" \in DOMAIN val.v THEN ObjectIdOrRaw(val.v["$oid"])
        ELSE IF "$date" \in DOMAIN val.v THEN UnwrapDate(val.v["$date"])
        ELSE LET r == [k \in DOMAIN val.v |-> _unwrap(val.v[k])]
             IN  IF \E k \in DOMAIN r : IsRaise(r[k]) THEN Raise ELSE M(r)
    ELSE IF IsList(val) THEN
        LET r == [i \in 1..Len(val.v) |-> _unwrap(val.v[i])]
        IN  IF \E i \in 1..Len(val.v) : IsRaise(r[i]) THEN Raise ELSE L(r)
    ELSE val

\* for x in lst: the elements, a lone Raise when lst is not iterable
ElementsOf(lst) == IF IsRaise(Iterate(lst)) THEN <<Raise>> ELSE Iterate(lst).v

\* the list built by a loop over elements: Raise when a step raised
Collect(r) == IF \E i \in 1..Len(r) : IsRaise(r[i]) THEN Raise ELSE L(r)

\* int(a or b or 0) under try, 0 on an exception
IntOfEither(seg, a, b) == IntOrDefault(Or(Or(Get(seg, a), Get(seg, b)), I(0)), I(0))
IntOfKey(seg, a) == IntOrDefault(Or(Get(seg, a), I(0)), I(0))

\* NormAudio with '' where the type tag 'normal' is defaulted
NormAudio_TypeNotDefaulted(x) ==
    LET seg == Or(x, M(EmptyMap))
    IN  IF ~IsMap(seg) THEN Raise
        ELSE M([startTime |-> IntOfEither(seg.v, "startTime", "start"),
                endTime |-> IntOfEither(seg.v, "endTime", "end"),
                pace |-> IntOfKey(seg.v, "pace"),
                pauses |-> IntOfKey(seg.v, "pauses"),
                type |-> Or(Get(seg.v, "type"), S("")),
                message |-> Or(Get(seg.v, "message"), S(""))])

\* one element of timeline.audio (models.py 678-703)
NormAudio(x) ==
    LET seg == Or(x, M(EmptyMap))
    IN  IF ~IsMap(seg) THEN Raise
        ELSE M([startTime |-> IntOfEither(seg.v, "startTime", "start"),
                endTime |-> IntOfEither(seg.v, "endTime", "end"),
                pace |-> IntOfKey(seg.v, "pace"),
                pauses |-> IntOfKey(seg.v, "pauses"),
                type |-> Or(Get(seg.v, "type"), S("normal")),
                message |-> Or(Get(seg.v, "message"), S(""))])

\* one element of timeline.video (models.py 708-733)
NormVideo(x) ==
    LET seg == Or(x, M(EmptyMap))
    IN  IF ~IsMap(seg) THEN Raise
        ELSE M([startTime |-> IntOfEither(seg.v, "startTime", "start"),
                endTime |-> IntOfEither(seg.v, "endTime", "end"),
                eyeContact |-> FloatOrDefault(
                    Or(Or(Get(seg.v, "eyeContact"), Get(seg.v, "eye_contact")), I(0)), F(0)),
                gestures |-> IntOfKey(seg.v, "gestures"),
                type |-> Or(Get(seg.v, "type"), S("good")),
                message |-> Or(Get(seg.v, "message"), S(""))])

\* one element of timeline.transcript (models.py 738-753)
NormTranscript(x) ==
    LET seg == Or(x, M(EmptyMap))
    IN  IF ~IsMap(seg) THEN Raise
        ELSE M([startTime |-> IntOfEither(seg.v, "startTime", "start"),
                endTime |-> IntOfEither(seg.v, "endTime", "end"),
                text |-> Or(Or(Get(seg.v, "text"), Get(seg.v, "transcript")), S("")),
                keyPhrases |-> Or(Or(Get(seg.v, "keyPhrases"), Get(seg.v, "key_phrases")),
                                  L(<<>>))])

\* one element of scoreDips / scorePeaks (models.py 757-775)
NormScoreItem(x) ==
    LET item == Or(x, M(EmptyMap))
    IN  IF ~IsMap(item) THEN Raise
        ELSE M([timestamp |-> IntOrDefault(
                    Or(Or(Or(Get(item.v, "timestamp"), Get(item.v, "time")),
                          Get(item.v, "ts")), I(0)), I(0)),
                score |-> IntOfKey(item.v, "score"),
                message |-> Or(Get(item.v, "message"), S("")),
                type |-> Or(Get(item.v, "type"), S(""))])

_norm_score_list(lst) ==
    Collect([i \in 1..Len(ElementsOf(lst)) |-> NormScoreItem(ElementsOf(lst)[i])])

\* the confidence interval of a metric (models.py 791-799)
NormCI(ci) ==
    IF IsList(ci) /\ Len(ci.v) >= 2
    THEN IF IsRaise(PyInt(ci.v[1])) \/ IsRaise(PyInt(ci.v[2]))
         THEN L(<<I(0), I(100)>>)
         ELSE L(<<PyInt(ci.v[1]), PyInt(ci.v[2])>>)
    ELSE L(<<I(0), I(100)>>)

ListOrEmpty(x) == IF IsList(x) THEN x ELSE L(<<>>)

\* one element of metrics (models.py 785-811)
NormMetric(x) ==
    LET m == Or(x, M(EmptyMap))
    IN  IF ~IsMap(m) THEN Raise
        ELSE M([name |-> Or(Or(Get(m.v, "name"), Get(m.v, "metric")), S("")),
                score |-> IntOfKey(m.v, "score"),
                confidenceInterval |-> NormCI(
                    Or(Or(Get(m.v, "confidenceInterval"), Get(m.v, "confidence_interval")),
                       L(<<>>))),
                whatHelped |-> ListOrEmpty(
                    Or(Or(Get(m.v, "whatHelped"), Get(m.v, "what_helped")), L(<<>>))),
                whatHurt |-> ListOrEmpty(
                    Or(Or(Get(m.v, "whatHurt"), Get(m.v, "what_hurt")), L(<<>>)))])

\* models.py 653-656: the top-level defaults
WithTopDefaults(doc) ==
    LET d1 == SetDefault(doc, "sessionId", Or(Or(Get(doc, "sessionId"), Get(doc, "id")), S("")))
        d2 == SetDefault(d1, "sessionName",
                  Or(Or(Get(d1, "sessionName"), Get(d1, "name")),
                     S("Session " \o PyStr(GetD(d1, "sessionId", S(""))))))
    IN  SetDefault(d2, "videoUrl", GetD(d2, "videoUrl", S("")))

\* models.py 658-666: duration
CoerceDuration(d) ==
    IF IsMap(d)
    THEN IntOrDefault(Or(Or(Get(d.v, "$numberInt"), Get(d.v, "$numberLong")), I(0)), I(0))
    ELSE IntOrDefault(Or(d, I(0)), I(0))

TimelineKeys == <<"audio", "video", "transcript", "scoreDips", "scorePeaks">>

\* models.py 669-674: the timeline dict with the five keys defaulted
TimelineWithDefaults(doc) ==
    LET tl0 == IF IsMap(Get(doc, "timeline")) THEN Get(doc, "timeline").v ELSE EmptyMap
        tl1 == SetDefault(tl0, "audio", L(<<>>))
        tl2 == SetDefault(tl1, "video", L(<<>>))
        tl3 == SetDefault(tl2, "transcript", L(<<>>))
        tl4 == SetDefault(tl3, "scoreDips", L(<<>>))
    IN  SetDefault(tl4, "scorePeaks", L(<<>>))

\* models.py 676-780: each sub-sequence normalized in turn
NormTimeline(tl) ==
    LET au == ElementsOf(tl["audio"])
        vi == ElementsOf(tl["video"])
        ts == ElementsOf(tl["transcript"])
        a == Collect([i \in 1..Len(au) |-> NormAudio(au[i])])
        vd == Collect([i \in 1..Len(vi) |-> NormVideo(vi[i])])
        tr == Collect([i \in 1..Len(ts) |-> NormTranscript(ts[i])])
        dips == _norm_score_list(tl["scoreDips"])
        peaks == _norm_score_list(tl["scorePeaks"])
    IN  IF IsRaise(a) \/ IsRaise(vd) \/ IsRaise(tr) \/ IsRaise(dips) \/ IsRaise(peaks)
        THEN Raise
        ELSE M(Put(Put(Put(Put(Put(tl, "audio", a), "video", vd), "transcript", tr),
                       "scoreDips", dips), "scorePeaks", peaks))

\* models.py 783-812
NormMetrics(doc) ==
    LET metrics == ElementsOf(Or(GetD(doc, "metrics", L(<<>>)), L(<<>>)))
    IN  Collect([i \in 1..Len(metrics) |-> NormMetric(metrics[i])])

\* models.py 815-821: identifiers stringified, weakMoments defaulted
WithIdsAndWeakMoments(doc) ==
    LET d1 == IF "mentorId" \in DOMAIN doc THEN Put(doc, "mentorId", S(PyStr(doc["mentorId"])))
              ELSE doc
        d2 == IF "userId" \in DOMAIN d1 THEN Put(d1, "userId", S(PyStr(d1["userId"])))
              ELSE d1
    IN  SetDefault(d2, "weakMoments", GetD(d2, "weakMoments", L(<<>>)))

\* prepare_for_insert without the write-back of the normalized timeline
prepare_for_insert_TimelineNotStored(raw_doc) ==
    LET u == _unwrap(Or(raw_doc, M(EmptyMap)))
    IN  IF IsRaise(u) \/ ~IsMap(u) THEN Raise
        ELSE LET d1 == WithTopDefaults(u.v)
                 d2 == Put(d1, "duration", CoerceDuration(Get(d1, "duration")))
                 tl == NormTimeline(TimelineWithDefaults(d2))
                 ms == NormMetrics(d2)
             IN  IF IsRaise(tl) \/ IsRaise(ms) THEN Raise
                 ELSE M(WithIdsAndWeakMoments(Put(d2, "metrics", ms)))

prepare_for_insert(raw_doc) ==
    LET u == _unwrap(Or(raw_doc, M(EmptyMap)))
    IN  IF IsRaise(u) \/ ~IsMap(u) THEN Raise
        ELSE LET d1 == WithTopDefaults(u.v)
                 d2 == Put(d1, "duration", CoerceDuration(Get(d1, "duration")))
                 tl == NormTimeline(TimelineWithDefaults(d2))
                 ms == NormMetrics(d2)
             IN  IF IsRaise(tl) \/ IsRaise(ms) THEN Raise
                 ELSE M(WithIdsAndWeakMoments(Put(Put(d2, "timeline", tl), "metrics", ms)))

---------------------------------------------------------------------------
(* The generative-text collaborator and the gap filler (src/models.py 216-559) *)

\* what client.models.generate_content does: it raises, returns a response
\* without text, or returns a text.  A text is a sequence of tokens: a code
\* fence, a word, or the serialization of a JSON value.
NoText == [t |-> "notext", v |-> 0]
Text(tokens) == [t |-> "text", v |-> tokens]
Fence == [t |-> "fence", v |-> 0]
Word(w) == [t |-> "word", v |-> w]
Json(x) == [t |-> "json", v |-> x]

\* text.split('```')[1] for a text that starts with a fence: what lies between
\* the first fence and the next one (or the end)
RECURSIVE UpToFence(_)
UpToFence(tokens) ==
    IF tokens = <<>> \/ Head(tokens) = Fence THEN <<>>
    ELSE <<Head(tokens)>> \o UpToFence(Tail(tokens))

\* models.py 489-497 (and 304-312): strip a markdown fence and a leading
\* 'json', then json.loads: the value, or Raise when the text is no JSON document
ParseGenerated(tokens) ==
    LET inner == IF tokens # <<>> /\ Head(tokens) = Fence
                 THEN LET body == UpToFence(Tail(tokens))
                      IN  IF body # <<>> /\ Head(body) = Word("json") THEN Tail(body) ELSE body
                 ELSE tokens
    IN  IF Len(inner) = 1 /\ inner[1].t = "json" THEN inner[1].v ELSE Raise

\* the result of a gap-filling call: the record it returns, the number of
\* generate requests it issued, and whether an exception was caught on the way
Filled(doc, calls, failed) == [doc |-> doc, calls |-> calls, failed |-> failed]

\* not x.get(k) or len(x.get(k, [])) == 0, for a feedback field that is a list
EmptyFeedback(m, k) == ~Truthy(Get(m, k))

\* models.py 388-404: which parts of the record hold something
Detect(doc) ==
    LET tl == GetD(doc, "timeline", M(EmptyMap)).v
        ms == GetD(doc, "metrics", L(<<>>)).v
    IN  [audio |-> Len(GetD(tl, "audio", L(<<>>)).v) > 0,
         video |-> Len(GetD(tl, "video", L(<<>>)).v) > 0,
         transcript |-> Len(GetD(tl, "transcript", L(<<>>)).v) > 0,
         scoreDips |-> Len(GetD(tl, "scoreDips", L(<<>>)).v) > 0,
         scorePeaks |-> Len(GetD(tl, "scorePeaks", L(<<>>)).v) > 0,
         metrics |-> Len(ms) > 0,
         emptyFeedback |-> \E i \in 1..Len(ms) :
             EmptyFeedback(ms[i].v, "whatHelped") \/ EmptyFeedback(ms[i].v, "whatHurt")]

\* models.py 406: nothing is missing
AllPopulated_NegatedFeedbackTest(has) ==
    /\ has.audio /\ has.video /\ has.transcript /\ has.scoreDips /\ has.scorePeaks
    /\ has.metrics /\ has.emptyFeedback

AllPopulated(has) ==
    /\ has.audio /\ has.video /\ has.transcript /\ has.scoreDips /\ has.scorePeaks
    /\ has.metrics /\ ~has.emptyFeedback

\* models.py 502-511: one sub-sequence taken from the generated timeline
MergeSubSequence_Unguarded(tl, has, gtl, k) ==
    IF IsList(Get(gtl, k)) THEN Put(tl, k, gtl[k]) ELSE tl

MergeSubSequence(tl, has, gtl, k) ==
    IF ~has[k] /\ IsList(Get(gtl, k)) THEN Put(tl, k, gtl[k]) ELSE tl

\* models.py 500-511.  'timeline' in generated raises for a number or null,
\* generated['timeline'] for a list that holds 'timeline'; tl.get raises for a
\* generated timeline that is no dict, at the first sub-sequence found empty
MergeTimeline(doc, has, generated) ==
    IF generated.t \in {"null", "int", "float"} THEN Filled(doc, 1, TRUE)
    ELSE IF IsList(generated) /\ \E i \in 1..Len(generated.v) : generated.v[i] = S("timeline")
    THEN Filled(doc, 1, TRUE)
    ELSE IF ~(IsMap(generated) /\ "timeline" \in DOMAIN generated.v) THEN Filled(doc, 1, FALSE)
    ELSE LET gtl == generated.v["timeline"]
         IN  IF ~IsMap(gtl)
             THEN Filled(doc, 1, \E i \in 1..Len(TimelineKeys) : ~has[TimelineKeys[i]])
             ELSE LET t0 == doc["timeline"].v
                      t1 == MergeSubSequence(t0, has, gtl.v, "audio")
                      t2 == MergeSubSequence(t1, has, gtl.v, "video")
                      t3 == MergeSubSequence(t2, has, gtl.v, "transcript")
                      t4 == MergeSubSequence(t3, has, gtl.v, "scoreDips")
                      t5 == MergeSubSequence(t4, has, gtl.v, "scorePeaks")
                  IN  Filled(Put(doc, "timeline", M(t5)), 1, FALSE)

\* gen_metrics_map[name] of models.py 515: the last generated metric of that
\* name; Null when the name is not a key of the map
GenMetricFor(gms, name) ==
    LET hits == {i \in 1..Len(gms) : Truthy(Get(gms[i].v, "name")) /\ gms[i].v["name"] = name}
    IN  IF hits = {} THEN Null ELSE gms[CHOOSE i \in hits : \A j \in hits : j <= i]

\* models.py 521-533 (and 328-339): an existing metric with its empty
\* feedback lists filled from the generated metric of the same name
MergeFeedback(existing, gms) ==
    LET gen == GenMetricFor(gms, Get(existing, "name"))
    IN  IF gen # Null
        THEN LET e1 == IF EmptyFeedback(existing, "whatHelped")
                       THEN Put(existing, "whatHelped", GetD(gen.v, "whatHelped", L(<<>>)))
                       ELSE existing
             IN  IF EmptyFeedback(e1, "whatHurt")
                 THEN Put(e1, "whatHurt", GetD(gen.v, "whatHurt", L(<<>>)))
                 ELSE e1
        ELSE SetDefault(SetDefault(existing, "whatHelped", L(<<>>)), "whatHurt", L(<<>>))

\* building gen_metrics_map raises: an element without .get, or a name that
\* cannot be a dict key
GenMetricsRaise(gms) ==
    \E i \in 1..Len(gms) :
        \/ ~IsMap(gms[i])
        \/ Truthy(Get(gms[i].v, "name")) /\ gms[i].v["name"].t \in {"list", "map"}

\* models.py 514-537
MergeMetrics(doc, has, generated) ==
    IF ~IsMap(generated) THEN Filled(doc, 1, TRUE)
    ELSE IF ~IsList(Get(generated.v, "metrics")) THEN Filled(doc, 1, FALSE)
    ELSE LET gms == generated.v["metrics"].v
         IN  IF GenMetricsRaise(gms) THEN Filled(doc, 1, TRUE)
             ELSE IF has.metrics /\ Truthy(Get(doc, "metrics"))
             THEN Filled(Put(doc, "metrics",
                             L([i \in 1..Len(doc["metrics"].v) |->
                                   M(MergeFeedback(doc["metrics"].v[i].v, gms))])), 1, FALSE)
             ELSE Filled(Put(doc, "metrics", generated.v["metrics"]), 1, FALSE)

\* models.py 539-540
MergeWeakMoments(doc, generated) ==
    IF ~Truthy(Get(doc, "weakMoments")) /\ IsList(Get(generated.v, "weakMoments"))
    THEN Put(doc, "weakMoments", generated.v["weakMoments"])
    ELSE doc

\* models.py 482-552: the request and the merge of its answer.  The record is
\* updated in place, so what was merged before an exception stays merged.
GenerateAndMerge(doc, has, resp) ==
    IF resp.t = "raise" THEN Filled(doc, 1, TRUE)
    ELSE IF resp.t = "notext" THEN Filled(doc, 1, FALSE)
    ELSE LET generated == ParseGenerated(resp.v)
         IN  IF IsRaise(generated) THEN Filled(doc, 1, TRUE)
             ELSE LET s1 == MergeTimeline(doc, has, generated)
                  IN  IF s1.failed THEN s1
                      ELSE LET s2 == MergeMetrics(s1.doc, has, generated)
                           IN  IF s2.failed THEN s2
                               ELSE Filled(MergeWeakMoments(s2.doc, generated), 1, FALSE)

\* Session.fill_missing_fields_with_gemini(doc).  env: "ok", "no_key" (no
\* GEMINI_API_KEY) or "client_error" (genai.Client raises); resp: what the
\* generate request answers if one is made.  doc is the payload of a record
\* that prepare_for_insert returned.
fill_missing_fields_with_gemini(doc, env, resp) ==
    IF env = "no_key" THEN Filled(doc, 0, FALSE)
    ELSE IF env = "client_error" THEN Filled(doc, 0, TRUE)
    ELSE IF AllPopulated(Detect(doc)) THEN Filled(doc, 0, FALSE)
    ELSE GenerateAndMerge(doc, Detect(doc), resp)

\* models.py 231-235
NeedsFilling(metrics) ==
    \E i \in 1..Len(metrics) :
        EmptyFeedback(metrics[i].v, "whatHelped") \/ EmptyFeedback(metrics[i].v, "whatHurt")

\* models.py 354-356: the arrays exist on every metric
WithFeedbackArrays(metrics) ==
    [i \in 1..Len(metrics) |->
        M(SetDefault(SetDefault(metrics[i].v, "whatHelped", L(<<>>)), "whatHurt", L(<<>>)))]

\* models.py 297-341: the feedback request and the merge of its answer
FeedbackFromResponse(metrics, resp) ==
    IF resp.t = "raise" THEN Filled(WithFeedbackArrays(metrics), 1, TRUE)
    ELSE IF resp.t = "notext" THEN Filled(WithFeedbackArrays(metrics), 1, FALSE)
    ELSE LET generated == ParseGenerated(resp.v)
         IN  IF IsRaise(generated) \/ generated.t \in {"null", "int", "float"}
             THEN Filled(WithFeedbackArrays(metrics), 1, TRUE)
             ELSE LET gms == IF IsMap(generated) /\ IsList(Get(generated.v, "metrics"))
                             THEN generated.v["metrics"].v
                             ELSE <<>>
                  IN  IF GenMetricsRaise(gms)
                      THEN Filled(WithFeedbackArrays(metrics), 1, TRUE)
                      ELSE Filled([i \in 1..Len(metrics) |->
                                      M(MergeFeedback(metrics[i].v, gms))], 1, FALSE)

\* Session.fill_metric_feedback_with_gemini(metrics, session_context); the
\* doc field of the result is the list of metrics it returns
fill_metric_feedback_with_gemini(metrics, env, resp) ==
    IF ~NeedsFilling(metrics) THEN Filled(metrics, 0, FALSE)
    ELSE IF env = "no_key" THEN Filled(metrics, 0, FALSE)
    ELSE IF env = "client_error" THEN Filled(metrics, 0, TRUE)
    ELSE FeedbackFromResponse(metrics, resp)

---------------------------------------------------------------------------
(* The metrics the ingest adapters build from raw analysis output *)

Max(a, b) == IF a >= b THEN a ELSE b
Min(a, b) == IF a <= b THEN a ELSE b

IsNumber(x) == x.t \in {"int", "float"}

RECURSIVE Flatten(_)
Flatten(ss) == IF ss = <<>> THEN <<>> ELSE Head(ss) \o Flatten(Tail(ss))

RECURSIVE SumSeq(_)
SumSeq(q) == IF q = <<>> THEN 0 ELSE Head(q) + SumSeq(Tail(q))

\* val.get('score') for a dict, val for a number, else None
ScoreOf(val) ==
    IF IsMap(val) THEN Get(val.v, "score") ELSE IF IsNumber(val) THEN val ELSE Null

\* int(float(score)), or Raise
IntOfFloat(score) == IF IsRaise(PyFloat(score)) THEN Raise ELSE PyInt(PyFloat(score))

\* a metric with an integer score and the band score - 5 .. score + 5
BandedMetric(label, score) ==
    M([name |-> S(label), score |-> I(score),
       confidenceInterval |-> L(<<I(Max(0, score - 5)), I(Min(100, score + 5))>>),
       whatHelped |-> L(<<>>), whatHurt |-> L(<<>>)])

\* app.py 1664-1673
UrlKeyMap ==
    << <<"clarity", "Clarity">>, <<"communication", "Communication">>,
       <<"engagement", "Engagement">>, <<"technical_depth", "Technical Depth">>,
       <<"interaction", "Interaction">>, <<"pacing", "Pacing">>,
       <<"eye_contact", "Eye Contact">>, <<"gestures", "Gestures">> >>

\* app.py 1675-1693: the metric of one key, nothing when the score is missing
\* or cannot be converted
UrlMetric(analysis, k, label) ==
    LET score == ScoreOf(Get(analysis, k))
    IN  IF score = Null \/ IsRaise(IntOfFloat(score)) THEN <<>>
        ELSE <<BandedMetric(label, Max(0, Min(100, IntOfFloat(score).v)))>>

\* app.py 1696-1709
UrlOverall(analysis) ==
    LET overall == Or(Get(analysis, "overall_score"), Get(analysis, "overallScore"))
    IN  IF overall = Null \/ IsRaise(IntOfFloat(overall)) THEN <<>>
        ELSE <<BandedMetric("Overall", Max(0, Min(100, IntOfFloat(overall).v)))>>

\* analyze_video_from_url, app.py 1661-1709: the metrics list
UrlMetrics(analysis_result) ==
    IF ~IsMap(analysis_result) THEN L(<<>>)
    ELSE L(Flatten([i \in 1..Len(UrlKeyMap) |->
                       UrlMetric(analysis_result.v, UrlKeyMap[i][1], UrlKeyMap[i][2])])
           \o UrlOverall(analysis_result.v))

\* app.py 2314-2319
S3MetricKeys ==
    << <<"communication", "Communication">>, <<"clarity", "Clarity">>,
       <<"engagement", "Engagement">>, <<"interaction", "Interaction">> >>

\* app.py 2327-2343: the clamped score of one key of one chunk, << >> if none
S3ChunkScore(chunk, k) ==
    LET score == ScoreOf(GetD(chunk, k, M(EmptyMap)))
    IN  IF score = Null \/ IsRaise(IntOfFloat(score)) THEN <<>>
        ELSE <<Max(0, Min(100, IntOfFloat(score).v))>>

\* app.py 2308-2310: float(overall) of the chunks whose overall_score is
\* truthy, in tenths; Raise when one cannot be converted
S3OverallScores(chunks) ==
    LET truthy == SelectSeq(chunks, LAMBDA c : Truthy(GetD(c.v, "overall_score", I(0))))
    IN  IF \E i \in 1..Len(truthy) : IsRaise(PyFloat(truthy[i].v["overall_score"]))
        THEN Raise
        ELSE L([i \in 1..Len(truthy) |-> PyFloat(truthy[i].v["overall_score"]).v])

\* app.py 2360-2364: the mean overall score as an int, 75 without any
S3OverallAverage(tenths) ==
    IF Len(tenths) > 0 THEN TruncDiv(SumSeq(tenths), 10 * Len(tenths)) ELSE 75

\* app.py 2325-2357: one metric per label that got a score, in the order the
\* labels were first seen, each with the mean of its clamped scores
S3LabelMetrics(chunks) ==
    LET nk == Len(S3MetricKeys)
        scores(j) == Flatten([i \in 1..Len(chunks) |->
                                 S3ChunkScore(chunks[i].v, S3MetricKeys[j][1])])
        firstSeen(j) == CHOOSE p \in 1..(Len(chunks) * nk + nk) :
                            /\ \E i \in 1..Len(chunks) :
                                  /\ p = (i - 1) * nk + j
                                  /\ S3ChunkScore(chunks[i].v, S3MetricKeys[j][1]) # <<>>
                            /\ \A i \in 1..Len(chunks) :
                                  S3ChunkScore(chunks[i].v, S3MetricKeys[j][1]) # <<>>
                                      => p <= (i - 1) * nk + j
        seen == SelectSeq([j \in 1..nk |-> j], LAMBDA j : scores(j) # <<>>)
        ordered == SortSeq(seen, LAMBDA a, b : firstSeen(a) < firstSeen(b))
    IN  [n \in 1..Len(ordered) |->
            BandedMetric(S3MetricKeys[ordered[n]][2],
                         SumSeq(scores(ordered[n])) \div Len(scores(ordered[n])))]

\* create_session_from_s3_analysis, app.py 2280 and 2295-2372 (analysisResults
\* or {} is what the chunks are read from): the metrics list, Raise
\* when a chunk is no dict, a duration cannot be added or an overall_score
\* cannot be converted
S3Metrics(analysisResults) ==
    LET analysis_results == Or(analysisResults, M(EmptyMap))
        results == IF IsMap(analysis_results)
                   THEN Iterate(GetD(analysis_results.v, "results", L(<<>>)))
                   ELSE Raise
    IN  IF IsRaise(results) \/ \E i \in 1..Len(results.v) : ~IsMap(results.v[i]) THEN Raise
        ELSE IF \E i \in 1..Len(results.v) : ~IsNumber(GetD(results.v[i].v, "duration", I(0)))
        THEN Raise
        ELSE IF IsRaise(S3OverallScores(results.v)) THEN Raise
        ELSE L(S3LabelMetrics(results.v)
               \o <<BandedMetric("Overall", S3OverallAverage(S3OverallScores(results.v).v))>>)

\* ingest_session_from_files.py 42-48
FileKeyMap ==
    << <<"clarity", "Clarity">>, <<"communication", "Communication">>,
       <<"engagement", "Engagement">>, <<"technical_depth", "Technical Depth">>,
       <<"interaction", "Interaction">> >>

\* max(0, x - 5) and min(100, x + 5) for a float x in tenths: the int bound
\* unless the float is beyond it
FloatBandLow(tenths) == IF tenths - 50 > 0 THEN F(tenths - 50) ELSE I(0)
FloatBandHigh(tenths) == IF tenths + 50 < 1000 THEN F(tenths + 50) ELSE I(100)

\* ingest_session_from_files.py 57-64 and 67-73
FloatMetric(label, score) ==
    M([name |-> S(label), score |-> score,
       confidenceInterval |-> L(<<FloatBandLow(score.v), FloatBandHigh(score.v)>>),
       whatHelped |-> L(<<>>), whatHurt |-> L(<<>>)])

FileMetric(analysis, k, label) ==
    LET score == ScoreOf(Get(analysis, k))
    IN  IF score = Null THEN <<>>
        ELSE IF IsRaise(PyFloat(score)) THEN <<Raise>>
        ELSE <<FloatMetric(label, PyFloat(score))>>

FileOverall(analysis) ==
    LET overall == Or(Get(analysis, "overall_score"), Get(analysis, "overallScore"))
    IN  IF overall = Null THEN <<>>
        ELSE IF IsRaise(PyFloat(overall)) THEN <<Raise>>
        ELSE <<FloatMetric("Overall", PyFloat(overall))>>

\* build_session, ingest_session_from_files.py 25-75: the metrics list, Raise
\* when float() raises on a score (or on overall_score at line 31)
FileMetrics(analysis) ==
    IF ~IsMap(analysis) THEN L(<<>>)
    ELSE IF IsRaise(PyFloat(GetD(analysis.v, "overall_score", I(0)))) THEN Raise
    ELSE LET ms == Flatten([i \in 1..Len(FileKeyMap) |->
                               FileMetric(analysis.v, FileKeyMap[i][1], FileKeyMap[i][2])])
                   \o FileOverall(analysis.v)
         IN  IF \E i \in 1..Len(ms) : IsRaise(ms[i]) THEN Raise ELSE L(ms)

---------------------------------------------------------------------------
(* Session.normalize_for_api, the definition in effect (src/models.py 1111-1243) *)

\* to_num, models.py 1147-1154
to_num(v) ==
    IF ~IsRaise(PyInt(v)) THEN PyInt(v)
    ELSE IF ~IsRaise(IntOfFloat(v)) THEN IntOfFloat(v)
    ELSE I(0)

\* to_num(seg.get(a) or seg.get(b) or 0)
NumOfEither(seg, a, b) == to_num(Or(Or(Get(seg, a), Get(seg, b)), I(0)))

\* int(seg.get(a) or 0), not under try
IntOfKeyOrRaise(seg, a) == PyInt(Or(Get(seg, a), I(0)))

\* a dict built from values one of which may have raised
DictOrRaise(f) == IF \E k \in DOMAIN f : IsRaise(f[k]) THEN Raise ELSE M(f)

\* models.py 1159-1168
ApiAudio(x) ==
    LET seg == Or(x, M(EmptyMap))
    IN  IF ~IsMap(seg) THEN Raise
        ELSE DictOrRaise([startTime |-> NumOfEither(seg.v, "startTime", "start"),
                          endTime |-> NumOfEither(seg.v, "endTime", "end"),
                          pace |-> IntOfKeyOrRaise(seg.v, "pace"),
                          pauses |-> IntOfKeyOrRaise(seg.v, "pauses"),
                          type |-> Or(Get(seg.v, "type"), S("normal")),
                          message |-> Or(Get(seg.v, "message"), S(""))])

\* models.py 1173-1182
ApiVideo(x) ==
    LET seg == Or(x, M(EmptyMap))
    IN  IF ~IsMap(seg) THEN Raise
        ELSE DictOrRaise([startTime |-> NumOfEither(seg.v, "startTime", "start"),
                          endTime |-> NumOfEither(seg.v, "endTime", "end"),
                          eyeContact |-> PyFloat(Or(Or(Get(seg.v, "eyeContact"),
                                                       Get(seg.v, "eye_contact")), I(0))),
                          gestures |-> IntOfKeyOrRaise(seg.v, "gestures"),
                          type |-> Or(Get(seg.v, "type"), S("good")),
                          message |-> Or(Get(seg.v, "message"), S(""))])

\* models.py 1187-1194
ApiTranscript(x) ==
    LET seg == Or(x, M(EmptyMap))
    IN  IF ~IsMap(seg) THEN Raise
        ELSE M([startTime |-> NumOfEither(seg.v, "startTime", "start"),
                endTime |-> NumOfEither(seg.v, "endTime", "end"),
                text |-> Or(Or(Get(seg.v, "text"), Get(seg.v, "transcript")), S("")),
                keyPhrases |-> Or(Or(Get(seg.v, "keyPhrases"), Get(seg.v, "key_phrases")),
                                  L(<<>>))])

\* models.py 1200-1217
ApiScoreItem(x) ==
    LET d == Or(x, M(EmptyMap))
    IN  IF ~IsMap(d) THEN Raise
        ELSE DictOrRaise([timestamp |-> to_num(Or(Or(Or(Get(d.v, "timestamp"),
                                                         Get(d.v, "time")),
                                                      Get(d.v, "ts")), I(0))),
                          score |-> IntOfKeyOrRaise(d.v, "score"),
                          message |-> Or(Get(d.v, "message"), S("")),
                          type |-> Or(Get(d.v, "type"), S(""))])

\* ApiMetric that also skips a metric whose score is 0 or missing
ApiMetric_SkipsZeroScore(m) ==
    IF ~IsMap(m) \/ IsRaise(IntOfKeyOrRaise(m.v, "score")) \/ ~Truthy(Or(Get(m.v, "score"), I(0)))
    THEN <<>>
    ELSE <<M([name |-> Or(Or(Get(m.v, "name"), Get(m.v, "metric")), S("")),
              score |-> IntOfKeyOrRaise(m.v, "score"),
              confidenceInterval |->
                  Or(Or(Get(m.v, "confidenceInterval"), Get(m.v, "confidence_interval")),
                     L(<<I(0), I(100)>>)),
              whatHelped |-> Or(Or(Get(m.v, "whatHelped"), Get(m.v, "what_helped")), L(<<>>)),
              whatHurt |-> Or(Or(Get(m.v, "whatHurt"), Get(m.v, "what_hurt")), L(<<>>))])>>

\* models.py 1230-1240: the metric appended, nothing when building it raised
ApiMetric(m) ==
    IF ~IsMap(m) \/ IsRaise(IntOfKeyOrRaise(m.v, "score")) THEN <<>>
    ELSE <<M([name |-> Or(Or(Get(m.v, "name"), Get(m.v, "metric")), S("")),
              score |-> IntOfKeyOrRaise(m.v, "score"),
              confidenceInterval |->
                  Or(Or(Get(m.v, "confidenceInterval"), Get(m.v, "confidence_interval")),
                     L(<<I(0), I(100)>>)),
              whatHelped |-> Or(Or(Get(m.v, "whatHelped"), Get(m.v, "what_helped")), L(<<>>)),
              whatHurt |-> Or(Or(Get(m.v, "whatHurt"), Get(m.v, "what_hurt")), L(<<>>))])>>

\* models.py 1135-1139: max of int(ts.get('endTime', 0)) over the transcript,
\* 0 when that raises
MaxEndTime(transcript) ==
    LET ts == ElementsOf(transcript)
        ends == [i \in 1..Len(ts) |->
                    IF IsMap(ts[i]) THEN PyInt(GetD(ts[i].v, "endTime", I(0))) ELSE Raise]
    IN  IF \E i \in 1..Len(ts) : IsRaise(ends[i]) THEN I(0)
        ELSE I(CHOOSE e \in {ends[i].v : i \in 1..Len(ts)} :
                   \A i \in 1..Len(ts) : ends[i].v <= e)

\* models.py 1127-1140: the duration before the final int()
DerivedDuration(doc) ==
    LET d0 == Get(doc, "duration")
        d1 == IF IsMap(Get(doc, "analysis"))
              THEN Or(Get(Get(doc, "analysis").v, "duration"),
                      Get(Get(doc, "analysis").v, "total_duration"))
              ELSE d0
        transcript == IF IsMap(Get(doc, "timeline"))
                      THEN GetD(Get(doc, "timeline").v, "transcript", L(<<>>))
                      ELSE Null
    IN  IF IsNumber(d0) THEN d0
        ELSE IF ~Truthy(d1) /\ IsMap(Get(doc, "timeline")) /\ Truthy(transcript)
        THEN MaxEndTime(transcript)
        ELSE d1

\* timeline.get(k, []) if isinstance(timeline, dict) else []
TimelineIn(doc, k) ==
    LET timeline == Or(Get(doc, "timeline"), M(EmptyMap))
    IN  IF IsMap(timeline) THEN GetD(timeline.v, k, L(<<>>)) ELSE L(<<>>)

\* models.py 1142-1225: the five sub-sequences, Raise when a loop raised
ApiTimeline(doc) ==
    LET au == ElementsOf(TimelineIn(doc, "audio"))
        vi == ElementsOf(TimelineIn(doc, "video"))
        ts == ElementsOf(TimelineIn(doc, "transcript"))
        di == ElementsOf(TimelineIn(doc, "scoreDips"))
        pe == ElementsOf(TimelineIn(doc, "scorePeaks"))
    IN  DictOrRaise([audio |-> Collect([i \in 1..Len(au) |-> ApiAudio(au[i])]),
                     video |-> Collect([i \in 1..Len(vi) |-> ApiVideo(vi[i])]),
                     transcript |-> Collect([i \in 1..Len(ts) |-> ApiTranscript(ts[i])]),
                     scoreDips |-> Collect([i \in 1..Len(di) |-> ApiScoreItem(di[i])]),
                     scorePeaks |-> Collect([i \in 1..Len(pe) |-> ApiScoreItem(pe[i])])])

\* models.py 1228-1241: the metrics kept, Raise when metrics is not iterable
ApiMetrics(doc) ==
    LET ms == ElementsOf(Or(GetD(doc, "metrics", L(<<>>)), L(<<>>)))
    IN  IF \E i \in 1..Len(ms) : IsRaise(ms[i]) THEN Raise
        ELSE L(Flatten([i \in 1..Len(ms) |-> ApiMetric(ms[i])]))

\* Session.normalize_for_api(s), models.py 1112-1243
normalize_for_api(s) ==
    IF ~Truthy(s) THEN M(EmptyMap)
    ELSE IF ~IsMap(s) THEN Raise
    ELSE LET doc == s.v
             sessionId == Or(Or(Get(doc, "sessionId"), Get(doc, "id")),
                             S(PyStr(GetD(doc, "_id", S("")))))
         IN  DictOrRaise(
                 [sessionId |-> sessionId,
                  sessionName |-> Or(Or(Get(doc, "sessionName"), Get(doc, "name")),
                                     S("Session " \o PyStr(sessionId))),
                  videoUrl |-> Or(Or(Get(doc, "videoUrl"), Get(doc, "uploadedFile")), S("")),
                  duration |-> PyInt(Or(DerivedDuration(doc), I(0))),
                  timeline |-> ApiTimeline(doc),
                  metrics |-> ApiMetrics(doc)])

---------------------------------------------------------------------------
(* The sessions collection: create_session, find_by_sessionId and the        *)
(* session-breakdown endpoint (src/models.py, src/app.py)                    *)

\* the ObjectId the collection gives its n-th document
NewObjectId(n) == Oid("65f0000000000000000000a" \o Digit[n + 1])

\* whether a document matches the filter {'sessionId': sid}; a filter on None
\* also matches a document without the field
Matches(doc, sid) == Get(doc, "sessionId") = sid

\* find_one({'sessionId': sid}): the position of the first match, 0 for none
FindOne(docs, sid) ==
    IF \E i \in 1..Len(docs) : Matches(docs[i], sid)
    THEN CHOOSE i \in 1..Len(docs) :
             Matches(docs[i], sid) /\ \A j \in 1..(i - 1) : ~Matches(docs[j], sid)
    ELSE 0

\* models.py 583-586: created_at kept when it is a datetime, updated_at set
WithTimestamps(prepared, now) ==
    LET c == IF Get(prepared, "created_at").t = "date" THEN prepared
             ELSE Put(prepared, "created_at", Date(now))
    IN  Put(c, "updated_at", Date(now))

\* models.py 576-586: the document create_session hands to insert_one, Raise
\* when prepare_for_insert raises
PreparedForInsert(session_doc, env, resp, now) ==
    LET prepared == prepare_for_insert(session_doc)
    IN  IF IsRaise(prepared) THEN Raise
        ELSE M(WithTimestamps(fill_missing_fields_with_gemini(prepared.v, env, resp).doc, now))

\* insert_one: "" when the document is inserted, else why it is not: the
\* server cannot be reached, or the unique index on sessionId rejects it
InsertError(docs, doc, uniqueIndex, reachable) ==
    IF ~reachable THEN "unavailable"
    ELSE IF uniqueIndex /\ \E i \in 1..Len(docs) : Matches(docs[i], Get(doc, "sessionId"))
    THEN "duplicate"
    ELSE ""

\* the collection after insert_one(doc)
Inserted(docs, doc) == Append(docs, SetDefault(doc, "_id", NewObjectId(Len(docs) + 1)))

\* models.py 589-591: what create_session returns after a successful insert
CreatedSession(docs, doc) ==
    LET stored == Inserted(docs, doc)[Len(docs) + 1]
    IN  M(Put(stored, "_id", S(PyStr(stored["_id"]))))

\* models.py 838-853: the timeline find_by_sessionId hands out
FoundTimeline(s) ==
    IF ~IsMap(Get(s, "timeline"))
    THEN M([audio |-> L(<<>>), video |-> L(<<>>), transcript |-> L(<<>>),
            scoreDips |-> L(<<>>), scorePeaks |-> L(<<>>)])
    ELSE M(TimelineWithDefaults(s))

\* Session.find_by_sessionId, models.py 826-861: None, or the document with
\* _id as a string, id aliased and the expected fields defaulted
find_by_sessionId(docs, session_id) ==
    IF FindOne(docs, session_id) = 0 THEN Null
    ELSE LET s0 == docs[FindOne(docs, session_id)]
             s1 == Put(s0, "_id", S(PyStr(s0["_id"])))
             s2 == IF "sessionId" \in DOMAIN s1 /\ "id" \notin DOMAIN s1
                   THEN Put(s1, "id", s1["sessionId"]) ELSE s1
             s3 == Put(s2, "timeline", FoundTimeline(s2))
             s4 == SetDefault(s3, "metrics", L(<<>>))
             s5 == IF IsNumber(Get(s4, "duration")) THEN s4 ELSE Put(s4, "duration", I(0))
         IN  M(SetDefault(s5, "videoUrl", S("")))

Without(f, k) == [x \in DOMAIN f \ {k} |-> f[x]]

Response(status, body) == [status |-> status, body |-> body]

\* get_session_breakdown, app.py 1061-1097; file is what reading
\* data/session_breakdown.json gives: a dict keyed by session id, or Raise
get_session_breakdown(docs, session_id, file) ==
    LET breakdown == find_by_sessionId(docs, session_id)
    IN  IF Truthy(breakdown)
        THEN IF ~IsRaise(normalize_for_api(breakdown))
             THEN Response("200", normalize_for_api(breakdown))
             ELSE Response("200", M(Without(breakdown.v, "_id")))
        ELSE IF IsRaise(file) \/ ~IsMap(file) THEN Response("500", M([error |-> S("failed")]))
        ELSE IF ~Truthy(GetD(file.v, session_id.v, Null))
        THEN Response("404", M([error |-> S("No breakdown data found")]))
        ELSE Response("200", file.v[session_id.v])

---------------------------------------------------------------------------
(* The writers of stored sessions: update_session, seed, backfill, migrate   *)
(* (src/models.py, src/seed_sessions.py, src/backfill_timelines.py,          *)
(* src/migrate_sessions.py)                                                  *)

\* what a write leaves: the collection, why it failed ("" if it did not) and
\* the document returned (None when nothing matched)
Outcome(docs, error, result) == [docs |-> docs, error |-> error, result |-> result]

\* find_one_and_update that sets only the fields the matched document lacks
find_one_and_update_SetsAbsent(docs, sid, fields, uniqueIndex, reachable) ==
    LET i == FindOne(docs, sid)
    IN  IF ~reachable THEN Outcome(docs, "unavailable", Null)
        ELSE IF i = 0 THEN Outcome(docs, "", Null)
        ELSE Outcome([docs EXCEPT ![i] = docs[i] @@ fields], "", M(docs[i] @@ fields))

\* find_one_and_update({'sessionId': sid}, {'$set': fields}, return_document=True):
\* the first match gets the fields, each as a whole value; the server rejects a
\* changed _id and, under the unique index, a sessionId another document has
find_one_and_update(docs, sid, fields, uniqueIndex, reachable) ==
    LET i == FindOne(docs, sid)
        new == fields @@ docs[i]
    IN  IF ~reachable THEN Outcome(docs, "unavailable", Null)
        ELSE IF i = 0 THEN Outcome(docs, "", Null)
        ELSE IF "_id" \in DOMAIN fields /\ fields["_id"] # docs[i]["_id"]
        THEN Outcome(docs, "immutable_id", Null)
        ELSE IF uniqueIndex /\ \E j \in 1..Len(docs) :
                                  j # i /\ Matches(docs[j], Get(new, "sessionId"))
        THEN Outcome(docs, "duplicate", Null)
        ELSE Outcome([docs EXCEPT ![i] = new], "", M(new))

\* Session.update_session, models.py 1273-1284
update_session(docs, session_id, update_data, now, uniqueIndex, reachable) ==
    LET o == find_one_and_update(docs, session_id, Put(update_data, "updated_at", Date(now)),
                                 uniqueIndex, reachable)
    IN  IF o.result = Null THEN o
        ELSE Outcome(o.docs, "", M(Put(o.result.v, "_id", S(PyStr(o.result.v["_id"])))))

\* migrate_session, migrate_sessions.py 66-105, for a document read from the
\* collection: normalized, gap-filled, stamped and written back under its
\* sessionId; any exception is swallowed and nothing is written
Enriched(session_doc, env, resp, now) ==
    LET prepared == prepare_for_insert(M(session_doc))
    IN  IF IsRaise(prepared) THEN Raise
        ELSE M(Put(fill_missing_fields_with_gemini(prepared.v, env, resp).doc,
                   "updated_at", Date(now)))

\* migrate_sessions.py 84-101: the write of the enriched document
migrate_session(docs, session_doc, enriched, uniqueIndex, reachable) ==
    LET o == find_one_and_update(docs, Get(session_doc, "sessionId"), enriched.v,
                                 uniqueIndex, reachable)
    IN  IF ~Truthy(M(session_doc)) \/ IsRaise(enriched) THEN Outcome(docs, "", Null)
        ELSE IF o.error # "" THEN Outcome(docs, "", Null)
        ELSE o

\* seed_sessions.py 60-70: the document built from one entry of the data file
SeedDocument(session_key, session_obj, mentor_id) ==
    [sessionId |-> Or(Get(session_obj, "sessionId"), S(session_key)),
     sessionName |-> Get(session_obj, "sessionName"),
     videoUrl |-> Get(session_obj, "videoUrl"),
     duration |-> Get(session_obj, "duration"),
     timeline |-> GetD(session_obj, "timeline", M(EmptyMap)),
     metrics |-> GetD(session_obj, "metrics", L(<<>>)),
     mentorId |-> mentor_id,
     userId |-> mentor_id]

\* seed_sessions.py 72-86, one entry of the data file: an existing session is
\* updated with the document (--update) or skipped, a new one is created; a
\* failed create is printed and the loop goes on; doc is what create_session
\* would hand to insert_one
SeedEntry(docs, session_doc, update, doc, now, uniqueIndex, reachable) ==
        IF ~reachable THEN Outcome(docs, "unavailable", Null)
        ELSE IF Truthy(find_by_sessionId(docs, session_doc["sessionId"]))
        THEN IF update
             THEN update_session(docs, session_doc["sessionId"], session_doc, now,
                                 uniqueIndex, reachable)
             ELSE Outcome(docs, "", Null)
        ELSE IF IsRaise(doc) THEN Outcome(docs, "", Null)
        ELSE IF InsertError(docs, doc.v, uniqueIndex, reachable) # ""
        THEN Outcome(docs, "", Null)
        ELSE Outcome(Inserted(docs, doc.v), "", CreatedSession(docs, doc.v))

\* backfill_timelines.py 20-29: the sessions to fix
NeedsBackfill(s) ==
    \/ "timeline" \notin DOMAIN s
    \/ ~IsMap(s["timeline"])
    \/ "audio" \notin DOMAIN s["timeline"].v
    \/ "video" \notin DOMAIN s["timeline"].v
    \/ s["timeline"].v["audio"] = L(<<>>)
    \/ s["timeline"].v["video"] = L(<<>>)

\* the sessionId build_session makes up (ingest_session_from_files.py 26)
ThrowAwayId == "session_0a1b2c3d"

\* ingest_session_from_files.py 199-200: the videoUrl of the built session,
\* None without a video file name
BuiltVideoUrl(s) ==
    IF Truthy(Get(s, "uploadedFile"))
    THEN S("/api/mentor/" \o PyStr(Get(s, "mentorId")) \o "/sessions/" \o ThrowAwayId
           \o "/video")
    ELSE Null

\* backfill_timelines.py 61-76: the fields backfill writes for session s from
\* the analysis and diarization files, for a diarization without sentences
\* (build_session then leaves the five timeline lists and weakMoments empty);
\* Raise when build_session raises
BackfillUpdate(s, analysis, diarization) ==
    LET built_metrics == FileMetrics(Or(analysis, M(EmptyMap)))
    IN  IF IsRaise(built_metrics) THEN Raise
        ELSE M([timeline |-> M([audio |-> L(<<>>), video |-> L(<<>>), transcript |-> L(<<>>),
                                scoreDips |-> L(<<>>), scorePeaks |-> L(<<>>)]),
                metrics |-> built_metrics,
                weakMoments |-> L(<<>>),
                analysis |-> Or(Or(analysis, M(EmptyMap)), Get(s, "analysis")),
                diarization |-> Or(Or(diarization, M(EmptyMap)), Get(s, "diarization")),
                videoUrl |-> Or(BuiltVideoUrl(s), Get(s, "videoUrl"))])

\* backfill, backfill_timelines.py 40-83, from the n-th of the sessions read at
\* its start: sessions without sessionId or without files are skipped, a failed
\* update is printed, an exception of build_session ends the run
RECURSIVE BackfillFrom(_, _, _, _, _, _, _)
BackfillFrom(n, read, docs, files, now, uniqueIndex, reachable) ==
    IF n > Len(read) THEN Outcome(docs, "", Null)
    ELSE LET s == read[n]
             sid == Get(s, "sessionId")
             analysis == files[n].analysis
             diarization == files[n].diarization
             upd == BackfillUpdate(s, analysis, diarization)
         IN  IF ~NeedsBackfill(s) \/ ~Truthy(sid)
                \/ (~Truthy(analysis) /\ ~Truthy(diarization))
             THEN BackfillFrom(n + 1, read, docs, files, now, uniqueIndex, reachable)
             ELSE IF IsRaise(upd) THEN Outcome(docs, "raised", Null)
             ELSE BackfillFrom(n + 1, read,
                               update_session(docs, sid, upd.v, now, uniqueIndex,
                                              reachable).docs,
                               files, now, uniqueIndex, reachable)

---------------------------------------------------------------------------
(* The raw payloads the normalizer is run on *)

\* the longest list of elements put in a timeline sub-sequence or in metrics
MaxElems == 2

SeqsUpTo(E, n) == UNION {[1..k -> E] : k \in 0..n}

Env(tag, x) == M(tag :> x)

\* elements of timeline.audio, well formed and not
AudioElems ==
    { M([startTime |-> I(0), endTime |-> I(300), pace |-> I(150), pauses |-> I(3),
         type |-> S("fast"), message |-> S("Good opening pace")]),
      M([start |-> I(0), end |-> I(10)]),
      M([startTime |-> Env("$numberInt", S("7")), endTime |-> S("abc"), pace |-> F(37)]),
      M([startTime |-> I(0), start |-> I(5), endTime |-> I(20), end |-> I(30)]),
      Null,
      S("x") }

VideoElems ==
    { M([startTime |-> I(0), endTime |-> I(400), eyeContact |-> I(85), gestures |-> I(8),
         type |-> S("poor"), message |-> S("Eye contact dropped")]),
      M([start |-> I(0), end |-> I(10), eye_contact |-> S("3.7")]),
      M([eyeContact |-> S("abc"), gestures |-> Env("$numberLong", S("42"))]),
      M([startTime |-> I(3), start |-> I(9), eyeContact |-> I(0), eye_contact |-> I(50)]),
      Null,
      I(5) }

TranscriptElems ==
    { M([startTime |-> I(0), endTime |-> I(500), text |-> S("Welcome"),
         keyPhrases |-> L(<<S("welcome")>>)]),
      M([start |-> I(0), end |-> I(10), transcript |-> S("Hello"),
         key_phrases |-> L(<<S("hello")>>)]),
      M([startTime |-> I(1), endTime |-> I(2), keyPhrases |-> L(<<>>),
         key_phrases |-> L(<<S("intro")>>)]),
      M(EmptyMap),
      Null,
      S("x") }

ScoreElems ==
    { M([timestamp |-> I(450), score |-> I(65), message |-> S("dip"), type |-> S("audio")]),
      M([time |-> S("42"), score |-> I(150)]),
      M([ts |-> I(7), score |-> S("abc")]),
      Null,
      S("x") }

MetricElems ==
    { M([name |-> S("Clarity"), score |-> I(72),
         confidenceInterval |-> L(<<I(68), I(76)>>),
         whatHelped |-> L(<<S("Clear definitions")>>),
         whatHurt |-> L(<<S("Jargon overload")>>)]),
      M([metric |-> S("Pacing"), score |-> I(150),
         confidence_interval |-> L(<<I(90), I(10)>>), what_helped |-> L(<<S("Pauses")>>)]),
      M([name |-> S("Overall"), score |-> S("-5"),
         confidenceInterval |-> L(<<I(-5), F(2000), I(1)>>), whatHelped |-> S("x")]),
      M([name |-> S("Gestures"), score |-> S("abc"),
         confidenceInterval |-> L(<<S("a"), I(1)>>), whatHurt |-> Null]),
      M([score |-> Env("$numberInt", S("42")), confidenceInterval |-> L(<<I(40)>>)]),
      M([name |-> S("Engagement"), score |-> I(50),
         confidenceInterval |-> L(<<>>), confidence_interval |-> L(<<I(45), I(55)>>),
         whatHelped |-> L(<<>>), what_helped |-> L(<<S("Questions")>>)]),
      Null,
      S("x") }

\* a value in the place of a list: null, a number, strings, a dict
NotLists == {Null, I(5), S(""), S("x"), M(EmptyMap), M([k |-> I(1)])}

ListsOf(E) == {L(q) : q \in SeqsUpTo(E, MaxElems)} \cup NotLists

\* the duration field: absent, or one of these
DurationInputs ==
    { Null, I(42), I(0), I(-5), F(37), S("42"), S("3.7"), S("abc"), L(<<I(1)>>),
      Env("$numberInt", S("42")), Env("$numberLong", S("7")), Env("$numberInt", S("3.7")),
      Env("$numberInt", S("abc")), Env("$numberInt", Null), M([seconds |-> I(42)]),
      Env("$oid", Env("$numberInt", S("7"))) }

DurationParts == {EmptyMap} \cup {"duration" :> d : d \in DurationInputs}

TimelineInputs ==
    {Null, S("x"), L(<<>>), M(EmptyMap), M([chapters |-> L(<<I(1)>>)])}
    \cup {M("audio" :> x) : x \in ListsOf(AudioElems)}
    \cup {M("video" :> x) : x \in ListsOf(VideoElems)}
    \cup {M("transcript" :> x) : x \in ListsOf(TranscriptElems)}
    \cup {M("scoreDips" :> x) : x \in ListsOf(ScoreElems)}
    \cup {M(("scorePeaks" :> x) @@ ("chapters" :> L(<<>>))) : x \in ListsOf(ScoreElems)}

TimelineParts == {EmptyMap} \cup {"timeline" :> x : x \in TimelineInputs}

MetricsParts == {EmptyMap} \cup {"metrics" :> x : x \in ListsOf(MetricElems)}

\* identifiers, names and attached payloads, with envelopes at several depths
OtherParts ==
    { EmptyMap,
      [sessionId |-> S("s1")],
      [id |-> S("s2"), name |-> S("Intro")],
      [sessionId |-> Null, mentorId |-> Env("$oid", S("64b7f0c2a1d3e4f5a6b7c8d9")),
       userId |-> I(7)],
      [sessionId |-> S("s1"), mentorId |-> Null, videoUrl |-> S("http://v"),
       weakMoments |-> L(<<M([timestamp |-> S("00:07:30"), message |-> S("slow down")])>>)],
      [sessionId |-> S("s1"), created_at |-> Env("$date", Env("$numberLong", S("42"))),
       updated_at |-> Env("$date", S("abc")), _id |-> Env("$oid", S("zz"))],
      [sessionId |-> S("s1"),
       analysis |-> M([clarity |-> M([score |-> Env("$numberInt", S("7"))]),
                       chunks |-> L(<<Env("$numberLong", S("42")), L(<<Env("$date", I(7))>>)>>)])],
      [sessionId |-> S("s1"), analysis |-> M([ref |-> Env("$oid", Env("$numberInt", S("7")))])],
      [sessionId |-> S("s1"), diarization |-> L(<<Env("$oid", L(<<Env("$numberLong", S("42"))>>))>>)],
      [sessionId |-> S("s1"), analysis |-> M([n |-> Env("$numberLong", S("abc"))])] }

\* a few values of each field, taken together
DurationCore == {EmptyMap, "duration" :> I(-5), "duration" :> Env("$numberInt", S("42"))}
TimelineCore ==
    { EmptyMap,
      "timeline" :> M([audio |-> L(<<M([start |-> I(0), end |-> I(10)])>>),
                       video |-> L(<<>>), transcript |-> Null]),
      "timeline" :> M([audio |-> L(<<M([start |-> I(0), end |-> I(10)])>>),
                       scoreDips |-> L(<<M([time |-> S("42"), score |-> I(150)])>>),
                       chapters |-> L(<<I(1)>>)]) }
MetricsCore ==
    { EmptyMap, "metrics" :> L(<<>>),
      "metrics" :> L(<<M([name |-> S("Pacing"), score |-> I(150),
                          confidence_interval |-> L(<<I(90), I(10)>>)])>>) }

\* stored documents of several shapes, for the derivation of the duration
DerivationDocs ==
    LET spoken == M([transcript |-> L(<<M([startTime |-> I(0), endTime |-> I(500),
                                           text |-> S("Welcome")]),
                                         M([startTime |-> I(500), endTime |-> I(300),
                                            text |-> S("Recap")])>>)])
    IN  { M([sessionId |-> S("s1"), timeline |-> spoken]),
          M([sessionId |-> S("s1"), duration |-> I(7), timeline |-> spoken,
             analysis |-> M([duration |-> I(120)])]),
          M([sessionId |-> S("s1"), duration |-> Null, timeline |-> spoken,
             analysis |-> M([duration |-> I(120), total_duration |-> I(90)])]),
          M([sessionId |-> S("s1"), timeline |-> spoken,
             analysis |-> M([total_duration |-> F(907)])]),
          M([sessionId |-> S("s1"), timeline |-> spoken, analysis |-> M([clarity |-> I(7)])]),
          M([sessionId |-> S("s1"), duration |-> S("42"), timeline |-> spoken]),
          M([sessionId |-> S("s1"), duration |-> S("abc"), timeline |-> spoken]),
          M([sessionId |-> S("s1"), analysis |-> M([clarity |-> I(7)])]) }

RawDocs ==
    {Null, M(EmptyMap), Env("$numberInt", S("5"))}
    \cup DerivationDocs
    \cup {M(d @@ [sessionId |-> S("s1"), metrics |-> L(<<>>)]) : d \in DurationParts}
    \cup {M(t @@ [sessionId |-> S("s1")]) : t \in TimelineParts}
    \cup {M(m @@ [sessionId |-> S("s1")]) : m \in MetricsParts}
    \cup {M(o) : o \in OtherParts}
    \cup {M(d @@ t @@ m @@ o) : d \in DurationCore, t \in TimelineCore, m \in MetricsCore,
                                 o \in {EmptyMap, [id |-> S("s2"), mentorId |-> I(7)]}}

---------------------------------------------------------------------------
(* The normalizer run: prepare_for_insert on a raw payload, then on its own output *)

NormIdle == npc = "idle" /\ raw = Null /\ out = Null /\ out2 = Null /\ api = Null
FillIdle == fpc = "idle" /\ fdoc = Null /\ fenv = "ok" /\ fresp = Null /\ fres = Null
IngestIdle == ipc = "idle" /\ ianalysis = Null /\ iadapter = "" /\ imetrics = Null
NoReply == [op |-> "", status |-> "", sid |-> Null, found |-> FALSE, persisted |-> FALSE,
            body |-> Null]
StoreIdle == store = <<>> /\ clock = 0 /\ indexed = FALSE /\ reply = NoReply
WritersIdle == wpc = <<>> /\ wlocal = <<>>
RegisterIdle == users = <<>> /\ rpc = <<>> /\ rlocal = <<>>
UploadIdle == uploaded = <<>> /\ upc = <<>> /\ ulocal = <<>>
SnapshotIdle == peers = <<>> /\ snapshot = Null
LateIdle == WritersIdle /\ RegisterIdle /\ UploadIdle /\ SnapshotIdle

\* the generator while a record is projected: the key is set and the request
\* for metric feedback is answered for the metrics below
FeedbackFor(n) ==
    M([name |-> S(n), whatHelped |-> L(<<S("Steady rhythm")>>),
       whatHurt |-> L(<<S("Rushed sections")>>)])

FeedbackAnswer ==
    Text(<<Json(M([metrics |-> L(<<FeedbackFor("Clarity"), FeedbackFor("Pacing"),
                                   FeedbackFor("Overall"), FeedbackFor("Gestures"),
                                   FeedbackFor("Engagement")>>)]))>>)

GeneratorAnswering ==
    fpc = "idle" /\ fdoc = Null /\ fenv = "ok" /\ fresp = FeedbackAnswer /\ fres = Null

NormInit ==
    /\ npc = "start"
    /\ raw \in RawDocs
    /\ out = Null
    /\ out2 = Null
    /\ api = Null
    /\ GeneratorAnswering
    /\ IngestIdle
    /\ StoreIdle
    /\ LateIdle

\* Session.prepare_for_insert(raw)
Normalize ==
    /\ npc = "start"
    /\ out' = prepare_for_insert(raw)
    /\ npc' = IF IsRaise(out') THEN "raised" ELSE "normalized"
    /\ UNCHANGED <<raw, out2, api>>
    /\ UNCHANGED <<fillVars, ingestVars, storeVars, lateVars>>

\* Session.prepare_for_insert on the record it returned
Renormalize ==
    /\ npc = "normalized"
    /\ out2' = prepare_for_insert(out)
    /\ npc' = "renormalized"
    /\ UNCHANGED <<raw, out, api>>
    /\ UNCHANGED <<fillVars, ingestVars, storeVars, lateVars>>

\* Session.normalize_for_api on the record prepare_for_insert returned
Project ==
    /\ npc = "normalized"
    /\ api' = normalize_for_api(out)
    /\ npc' = "projected"
    /\ UNCHANGED <<raw, out, out2>>
    /\ UNCHANGED <<fillVars, ingestVars, storeVars, lateVars>>

\* Session.normalize_for_api on a document that was not normalized first
ProjectRaw ==
    /\ npc = "start"
    /\ api' = normalize_for_api(raw)
    /\ npc' = "projected_raw"
    /\ UNCHANGED <<raw, out, out2>>
    /\ UNCHANGED <<fillVars, ingestVars, storeVars, lateVars>>

NormNext == Normalize \/ Renormalize \/ Project \/ ProjectRaw

SpecNorm == NormInit /\ [][NormNext]_vars

---------------------------------------------------------------------------
(* The gap-filler run: a normalized record, a collaborator, one call *)

OneAudio == L(<<M([startTime |-> I(0), endTime |-> I(300), pace |-> I(150), pauses |-> I(3),
                   type |-> S("normal"), message |-> S("Good opening pace")])>>)
OneVideo == L(<<M([startTime |-> I(0), endTime |-> I(400), eyeContact |-> I(85),
                   gestures |-> I(8), type |-> S("good"), message |-> S("")])>>)
OneTranscript == L(<<M([startTime |-> I(0), endTime |-> I(120), text |-> S("Welcome"),
                        keyPhrases |-> L(<<S("welcome")>>)])>>)
OneDip == L(<<M([timestamp |-> I(450), score |-> I(65), message |-> S("dip"),
                 type |-> S("audio")])>>)
OnePeak == L(<<M([timestamp |-> I(100), score |-> I(92), message |-> S("peak"),
                  type |-> S("overall")])>>)

Metric(name, helped, hurt) ==
    M([name |-> S(name), score |-> I(72), confidenceInterval |-> L(<<I(68), I(76)>>),
       whatHelped |-> L(helped), whatHurt |-> L(hurt)])

MetricsChoices ==
    { L(<<>>),
      L(<<Metric("Clarity", <<S("Clear definitions")>>, <<S("Jargon overload")>>)>>),
      L(<<Metric("Clarity", <<>>, <<S("Jargon overload")>>)>>),
      L(<<Metric("Pacing", <<S("Good pauses")>>, <<>>),
          Metric("Clarity", <<S("Clear definitions")>>, <<S("Jargon overload")>>)>>),
      L(<<Metric("", <<>>, <<>>)>>) }

WeakMomentsChoices ==
    {L(<<>>), L(<<M([timestamp |-> S("00:07:30"), message |-> S("slow down")])>>)}

\* the payloads an ingest adapter hands to create_session: every part empty or not
FillRawDocs ==
    { M([sessionId |-> S("s1"), sessionName |-> S("Intro"), duration |-> I(1800),
         timeline |-> M([audio |-> a, video |-> vd, transcript |-> tr,
                         scoreDips |-> dips, scorePeaks |-> peaks]),
         metrics |-> ms, weakMoments |-> wm]) :
        a \in {L(<<>>), OneAudio}, vd \in {L(<<>>), OneVideo},
        tr \in {L(<<>>), OneTranscript}, dips \in {L(<<>>), OneDip},
        peaks \in {L(<<>>), OnePeak}, ms \in MetricsChoices, wm \in WeakMomentsChoices }

\* the records the gap filler is called on: what prepare_for_insert returned
FillRecords == {prepare_for_insert(r) : r \in FillRawDocs}

GenAudio == L(<<M([startTime |-> I(0), endTime |-> I(300), pace |-> I(180), pauses |-> I(1),
                   type |-> S("fast"), message |-> S("Speaking speed increased")])>>)
GenVideo == L(<<M([startTime |-> I(0), endTime |-> I(400), eyeContact |-> I(50),
                   gestures |-> I(3), type |-> S("poor"), message |-> S("Eye contact dropped")])>>)
GenTranscript == L(<<M([startTime |-> I(300), endTime |-> I(450), text |-> S("Examples"),
                        keyPhrases |-> L(<<S("examples")>>)])>>)
GenDip == L(<<M([timestamp |-> I(500), score |-> I(60), message |-> S("gen dip"),
                 type |-> S("video")])>>)
GenPeak == L(<<M([timestamp |-> I(800), score |-> I(90), message |-> S("gen peak"),
                  type |-> S("video")])>>)
GenTimeline == M([audio |-> GenAudio, video |-> GenVideo, transcript |-> GenTranscript,
                  scoreDips |-> GenDip, scorePeaks |-> GenPeak])
GenClarity == M([name |-> S("Clarity"), score |-> I(78),
                 confidenceInterval |-> L(<<I(74), I(82)>>),
                 whatHelped |-> L(<<S("Clear explanations")>>),
                 whatHurt |-> L(<<S("Some jargon")>>)])
GenPacing == M([name |-> S("Pacing"), score |-> I(76),
                whatHelped |-> L(<<S("Steady opening")>>), whatHurt |-> S("Rushed")])
GenWeakMoments == L(<<M([timestamp |-> S("00:08:20"), message |-> S("engage more")])>>)

\* the JSON documents the collaborator answers with, well shaped and not
GeneratedDocs ==
    { M([timeline |-> GenTimeline, metrics |-> L(<<GenClarity, GenPacing>>),
         weakMoments |-> GenWeakMoments]),
      M([timeline |-> M([audio |-> GenAudio, video |-> Null, transcript |-> L(<<>>)])]),
      M([timeline |-> L(<<>>), metrics |-> L(<<GenClarity>>)]),
      M([timeline |-> Null, weakMoments |-> GenWeakMoments]),
      M([timeline |-> GenTimeline, metrics |-> L(<<GenClarity, S("x")>>)]),
      M([timeline |-> GenTimeline, metrics |-> L(<<Null>>), weakMoments |-> GenWeakMoments]),
      M([metrics |-> L(<<GenPacing, M([name |-> S("Clarity")]),
                         M([whatHelped |-> L(<<S("unnamed")>>)])>>),
         weakMoments |-> S("x")]),
      M([metrics |-> L(<<GenClarity, M([name |-> S("Clarity"), whatHelped |-> L(<<S("second")>>),
                                        whatHurt |-> L(<<S("second")>>)])>>)]),
      M([metrics |-> L(<<M([name |-> L(<<S("Clarity")>>)])>>), timeline |-> GenTimeline]),
      M([metrics |-> M([Clarity |-> I(78)]), weakMoments |-> GenWeakMoments]),
      M(EmptyMap),
      L(<<S("timeline")>>),
      L(<<>>),
      I(5),
      Null }

WellShaped == M([timeline |-> GenTimeline, metrics |-> L(<<GenClarity, GenPacing>>),
                 weakMoments |-> GenWeakMoments])

Responses ==
    {Raise, NoText, Text(<<>>), Text(<<Word("Sorry, I cannot help")>>)}
    \cup {Text(<<Json(g)>>) : g \in GeneratedDocs}
    \cup { Text(<<Fence, Word("json"), Json(WellShaped), Fence>>),
           Text(<<Fence, Json(WellShaped), Fence, Word("Hope this helps")>>),
           Text(<<Fence, Word("python"), Json(WellShaped), Fence>>),
           Text(<<Word("Here is the JSON:"), Json(WellShaped)>>),
           Text(<<Fence>>) }

Environments == {"ok", "no_key", "client_error"}

FillInit ==
    /\ NormIdle
    /\ IngestIdle
    /\ StoreIdle
    /\ LateIdle
    /\ fpc = "start"
    /\ fdoc \in FillRecords
    /\ fenv \in Environments
    /\ fresp = Null
    /\ fres = Null

\* Session.fill_missing_fields_with_gemini(fdoc)
FillMissingFields ==
    /\ fpc = "start"
    /\ \E resp \in Responses :
          /\ fres' = fill_missing_fields_with_gemini(fdoc.v, fenv, resp)
          /\ fresp' = IF fres'.calls > 0 THEN resp ELSE Null
    /\ fpc' = "filled"
    /\ UNCHANGED <<fdoc, fenv>>
    /\ UNCHANGED <<normVars, ingestVars, storeVars, lateVars>>

\* Session.fill_metric_feedback_with_gemini(fdoc['metrics'], context)
FillMetricFeedback ==
    /\ fpc = "start"
    /\ \E resp \in Responses :
          /\ fres' = fill_metric_feedback_with_gemini(fdoc.v["metrics"].v, fenv, resp)
          /\ fresp' = IF fres'.calls > 0 THEN resp ELSE Null
    /\ fpc' = "feedback"
    /\ UNCHANGED <<fdoc, fenv>>
    /\ UNCHANGED <<normVars, ingestVars, storeVars, lateVars>>

FillNext == FillMissingFields \/ FillMetricFeedback

SpecFill == FillInit /\ [][FillNext]_vars

---------------------------------------------------------------------------
(* The ingest run: one adapter builds the metrics of one analysis output *)

MaxChunks == 2

\* what an analysis output may carry under a metric key
ScoreInputs ==
    { I(72), I(3), I(98), I(150), I(-20), F(725), F(1507), S("42"), Null,
      M([score |-> I(88)]), M([score |-> I(101)]), M([score |-> S("150")]),
      M([score |-> S("high")]), M([score |-> Null]), M(EmptyMap) }

\* what it may carry as overall_score
OverallInputs == { I(64), I(0), I(130), F(-25), S("7"), S("n/a"), Null }

Field(k, present, val) == IF present THEN k :> val ELSE EmptyMap

\* the whole-video analysis outputs
AnalysisDocs ==
    { M(Field("clarity", hasC, c) @@ Field("gestures", hasG, I(55))
        @@ Field("overall_score", hasO, o) @@ Field("overallScore", hasA, I(81))) :
        hasC \in BOOLEAN, c \in ScoreInputs, hasG \in BOOLEAN,
        hasO \in BOOLEAN, o \in OverallInputs, hasA \in BOOLEAN }

\* the chunks of a chunked analysis
Chunks ==
    { M([clarity |-> M([score |-> I(80)]), overall_score |-> I(70), duration |-> I(30)]),
      M([clarity |-> M([score |-> I(45)]), communication |-> I(130), overall_score |-> I(140)]),
      M([communication |-> M([score |-> F(667)]), overall_score |-> F(-305)]),
      M([engagement |-> S("x"), interaction |-> M([score |-> S("x")]), overall_score |-> I(0)]),
      M([clarity |-> I(91), overall_score |-> S("n/a")]),
      M([clarity |-> I(91), duration |-> S("30")]),
      S("chunk") }

ChunkedAnalyses ==
    { M([results |-> L(q)]) : q \in UNION { [1..n -> Chunks] : n \in 0..MaxChunks } }
    \cup { M(EmptyMap), M([results |-> Null]), L(<<I(1)>>) }

IngestInit ==
    /\ NormIdle
    /\ FillIdle
    /\ StoreIdle
    /\ LateIdle
    /\ ipc = "start"
    /\ ianalysis \in AnalysisDocs \cup ChunkedAnalyses \cup {Null, L(<<>>)}
    /\ iadapter = ""
    /\ imetrics = Null

\* analyze_video_from_url builds its metrics (app.py 1661-1709)
AnalyzeVideoFromUrl ==
    /\ ipc = "start"
    /\ ipc' = "built"
    /\ iadapter' = "analyze_video_from_url"
    /\ imetrics' = UrlMetrics(ianalysis)
    /\ UNCHANGED <<ianalysis, normVars, fillVars, storeVars, lateVars>>

\* create_session_from_s3_analysis builds its metrics (app.py 2295-2372)
CreateSessionFromS3Analysis ==
    /\ ipc = "start"
    /\ ipc' = "built"
    /\ iadapter' = "create_session_from_s3_analysis"
    /\ imetrics' = S3Metrics(ianalysis)
    /\ UNCHANGED <<ianalysis, normVars, fillVars, storeVars, lateVars>>

\* build_session builds its metrics (ingest_session_from_files.py 25-75)
BuildSession ==
    /\ ipc = "start"
    /\ ipc' = "built"
    /\ iadapter' = "build_session"
    /\ imetrics' = FileMetrics(ianalysis)
    /\ UNCHANGED <<ianalysis, normVars, fillVars, storeVars, lateVars>>

IngestNext == AnalyzeVideoFromUrl \/ CreateSessionFromS3Analysis \/ BuildSession

SpecIngest == IngestInit /\ [][IngestNext]_vars

---------------------------------------------------------------------------
(* The collection run: sessions are created, read, updated, seeded,          *)
(* backfilled and migrated, one operation after the other                    *)

\* the number of writes in a run
MaxWrites == 2

SessionIds == {"s1", "s2"}

FullTimeline == M([audio |-> OneAudio, video |-> OneVideo, transcript |-> OneTranscript,
                   scoreDips |-> OneDip, scorePeaks |-> OnePeak])

\* the documents handed to create_session under a sessionId
NewSessions(sid) ==
    { M([sessionId |-> S(sid)]),
      M([sessionId |-> S(sid), sessionName |-> S("Algebra"), mentorId |-> S("m1"),
         uploadedFile |-> S("v.mp4"), timeline |-> FullTimeline,
         metrics |-> L(<<M([name |-> S("Clarity"), score |-> I(72),
                            confidenceInterval |-> L(<<I(68), I(76)>>),
                            whatHelped |-> L(<<S("Clear definitions")>>)])>>),
         created_at |-> Env("$date", I(5))]),
      M([sessionId |-> S(sid), duration |-> Env("$numberInt", S("abc"))]) }

\* the collaborator of a run: no key, or an answer
Generations ==
    { [env |-> "no_key", resp |-> Raise],
      [env |-> "ok",
       resp |-> Text(<<Json(M([timeline |-> GenTimeline,
                               metrics |-> L(<<GenPacing, M([name |-> S("Clarity")])>>),
                               weakMoments |-> GenWeakMoments]))>>)] }

\* what data/session_breakdown.json may hold
StaticFiles ==
    { Raise, M(EmptyMap),
      M([s1 |-> M([sessionId |-> S("s1"), sessionName |-> S("Demo"), metrics |-> L(<<>>)])]) }

UpdateData ==
    { [sessionName |-> S("Renamed")],
      [sessionId |-> S("s2")],
      [created_at |-> Date(0), duration |-> I(9)],
      [metrics |-> I(5)] }

\* entries of the seed data file
SeedObjects ==
    { M(EmptyMap),
      M([sessionName |-> S("Untimed"), timeline |-> FullTimeline]) }

\* what the analysis and diarization files of a session hold, None when missing
BackfillFiles ==
    { [analysis |-> Null, diarization |-> Null],
      [analysis |-> M([clarity |-> I(72), overall_score |-> I(64)]), diarization |-> Null],
      [analysis |-> M([clarity |-> M([score |-> S("high")])]),
       diarization |-> M([sentences |-> L(<<>>)])] }

StoreInit ==
    /\ NormIdle
    /\ FillIdle
    /\ IngestIdle
    /\ LateIdle
    /\ store = <<>>
    /\ clock = 1
    /\ indexed \in BOOLEAN
    /\ reply = NoReply

Reply(op, status, sid, found, persisted, body) ==
    [op |-> op, status |-> status, sid |-> sid, found |-> found, persisted |-> persisted,
     body |-> body]

Written(docs) ==
    /\ clock < 1 + MaxWrites
    /\ store' = docs
    /\ clock' = clock + 1
    /\ UNCHANGED <<indexed, normVars, fillVars, ingestVars, lateVars>>

\* init_db (models.py 153-170): the unique index is built unless two stored
\* documents share a sessionId
InitDb ==
    /\ ~indexed
    /\ indexed' = (\A i, j \in 1..Len(store) :
                      Matches(store[i], Get(store[j], "sessionId")) => i = j)
    /\ reply' = Reply("init_db", IF indexed' THEN "returned" ELSE "raised", Null, FALSE,
                      FALSE, Null)
    /\ UNCHANGED <<store, clock, normVars, fillVars, ingestVars, lateVars>>

\* Session.create_session(doc) (models.py 562-591)
CreateSession ==
    \E sid \in SessionIds, g \in Generations, reachable \in BOOLEAN :
    \E doc \in NewSessions(sid) :
    \E p \in {PreparedForInsert(doc, g.env, g.resp, clock)} :
        LET ok == ~IsRaise(p) /\ InsertError(store, p.v, indexed, reachable) = ""
        IN  /\ Written(IF ok THEN Inserted(store, p.v) ELSE store)
            /\ reply' = Reply("create_session", IF ok THEN "returned" ELSE "raised", S(sid),
                              FALSE, ok, IF ok THEN CreatedSession(store, p.v) ELSE Null)

\* the save of analyze_video_from_url (app.py 1795-1867): the new session, under
\* a fresh sessionId, goes through create_session; the answer is 201 with the
\* saved document, or with the unsaved one when create_session raised
SaveAnalyzedSession ==
    \E sid \in SessionIds, g \in Generations, reachable \in BOOLEAN :
        LET new_session == [sessionId |-> S(sid), sessionName |-> S("Upload"),
                            mentorId |-> S("m1"), duration |-> I(0),
                            timeline |-> M([audio |-> L(<<>>), video |-> L(<<>>),
                                            transcript |-> L(<<>>), scoreDips |-> L(<<>>),
                                            scorePeaks |-> L(<<>>)]),
                            metrics |-> L(<<>>), weakMoments |-> L(<<>>),
                            created_at |-> Date(clock), updated_at |-> Date(clock)]
        IN
    \E p \in {PreparedForInsert(M(new_session), g.env, g.resp, clock)} :
        LET ok == ~IsRaise(p) /\ InsertError(store, p.v, indexed, reachable) = ""
            response_session == IF ok THEN CreatedSession(store, p.v).v ELSE new_session
        IN  /\ FindOne(store, S(sid)) = 0
            /\ Written(IF ok THEN Inserted(store, p.v) ELSE store)
            /\ reply' = Reply("analyze_video_from_url", "201", S(sid), FALSE, ok,
                              M(Put(response_session, "id",
                                    Or(Get(response_session, "sessionId"),
                                       Get(response_session, "_id")))))

\* the save of create_session_from_s3_analysis (app.py 2492-2525): 201 with a
\* summary of the saved session, 500 when create_session raised
SaveS3Session ==
    \E sid \in SessionIds, g \in Generations, reachable \in BOOLEAN :
        LET session_document == [sessionId |-> S(sid), sessionName |-> S("Chunked"),
                                 mentorId |-> S("m1"), duration |-> I(30),
                                 timeline |-> M([audio |-> L(<<>>), video |-> L(<<>>),
                                                 transcript |-> OneTranscript,
                                                 scoreDips |-> L(<<>>),
                                                 scorePeaks |-> L(<<>>)]),
                                 metrics |-> L(<<BandedMetric("Overall", 75)>>),
                                 weakMoments |-> L(<<>>),
                                 created_at |-> Date(clock), updated_at |-> Date(clock)]
        IN
    \E p \in {PreparedForInsert(M(session_document), g.env, g.resp, clock)} :
        LET ok == ~IsRaise(p) /\ InsertError(store, p.v, indexed, reachable) = ""
            saved == CreatedSession(store, p.v).v
        IN  /\ FindOne(store, S(sid)) = 0
            /\ Written(IF ok THEN Inserted(store, p.v) ELSE store)
            /\ reply' = IF ok
                        THEN Reply("create_session_from_s3_analysis", "201", S(sid), FALSE,
                                   TRUE, M([id |-> saved["_id"], sessionId |-> saved["sessionId"],
                                            sessionName |-> saved["sessionName"],
                                            duration |-> saved["duration"],
                                            weakMoments |-> saved["weakMoments"]]))
                        ELSE Reply("create_session_from_s3_analysis", "500", S(sid), FALSE,
                                   FALSE, M([error |-> S("Failed to save session to database"),
                                             sessionData |-> M(session_document)]))

\* GET /api/mentor/<mentor_id>/sessions/<session_id>/breakdown (app.py 1061-1097)
GetSessionBreakdown ==
    \E sid \in SessionIds, file \in StaticFiles :
    \E r \in {get_session_breakdown(store, S(sid), file)} :
            /\ reply' = Reply("get_session_breakdown", r.status, S(sid),
                              FindOne(store, S(sid)) # 0, FALSE, r.body)
            /\ UNCHANGED <<store, clock, indexed, normVars, fillVars, ingestVars, lateVars>>

\* Session.update_session(sid, update_data) (models.py 1273-1284)
UpdateSession ==
    \E sid \in SessionIds, update_data \in UpdateData, reachable \in BOOLEAN :
    \E o \in {update_session(store, S(sid), update_data, clock, indexed, reachable)} :
            /\ Written(o.docs)
            /\ reply' = Reply("update_session", IF o.error = "" THEN "returned" ELSE "raised",
                              S(sid), FindOne(store, S(sid)) # 0, FALSE, o.result)

\* seed_sessions.py main, for a data file with one entry
SeedSessions ==
    \E key \in SessionIds, obj \in SeedObjects, update \in BOOLEAN, g \in Generations,
       reachable \in BOOLEAN :
    \E doc \in {PreparedForInsert(M(SeedDocument(key, obj.v, S("m1"))), g.env, g.resp,
                                  clock)} :
    \E o \in {SeedEntry(store, SeedDocument(key, obj.v, S("m1")), update, doc, clock, indexed,
                        reachable)} :
            /\ Written(o.docs)
            /\ reply' = Reply("seed_sessions", IF o.error = "" THEN "returned" ELSE "raised",
                              S(key), FindOne(store, S(key)) # 0,
                              Len(o.docs) > Len(store), o.result)

\* backfill_timelines.py backfill
Backfill ==
    \E files \in [1..Len(store) -> BackfillFiles], reachable \in BOOLEAN :
    \E o \in {BackfillFrom(1, store, store, files, clock, indexed, reachable)} :
            /\ store # <<>>
            /\ Written(o.docs)
            /\ reply' = Reply("backfill", IF o.error = "" THEN "returned" ELSE "raised",
                              Null, FALSE, FALSE, Null)

\* migrate_sessions.py migrate_session, for a stored document
MigrateSession ==
    \E i \in 1..Len(store), g \in Generations, reachable \in BOOLEAN :
    \E enriched \in {Enriched(store[i], g.env, g.resp, clock)} :
    \E o \in {migrate_session(store, store[i], enriched, indexed, reachable)} :
            /\ Written(o.docs)
            /\ reply' = Reply("migrate_session", "returned", Get(store[i], "sessionId"),
                              TRUE, FALSE, o.result)

StoreNext ==
    \/ InitDb \/ CreateSession \/ SaveAnalyzedSession \/ SaveS3Session \/ GetSessionBreakdown
    \/ UpdateSession \/ SeedSessions \/ Backfill \/ MigrateSession

SpecStore == StoreInit /\ [][StoreNext]_vars

---------------------------------------------------------------------------
(* The writers run: update_session, migrate, backfill and seed --update work *)
(* on the same collection at the same time.  Each read and each write of a   *)
(* writer is one step; a writer keeps what it read in its local variables.   *)

SessionIdOf(doc) == Get(doc, "sessionId")

Writers == {"update", "migrate", "backfill", "seed"}

\* the two sessions stored before the writers start: one uploaded and not yet
\* analysed, one with its timeline and metrics
UploadedSession ==
    M([sessionId |-> S("s1"), sessionName |-> S("Algebra"), mentorId |-> S("m1"),
       userId |-> S("m1"), uploadedFile |-> S("v.mp4"),
       videoUrl |-> S("/api/mentor/m1/sessions/s1/video")])

AnalysedSession ==
    M([sessionId |-> S("s2"), sessionName |-> S("Geometry"), mentorId |-> S("m1"),
       timeline |-> FullTimeline,
       metrics |-> L(<<M([name |-> S("Clarity"), score |-> I(72),
                          confidenceInterval |-> L(<<I(68), I(76)>>),
                          whatHelped |-> L(<<S("Clear definitions")>>)])>>)])

StoredAtStart ==
    LET first == Inserted(<<>>, PreparedForInsert(UploadedSession, "no_key", Raise, 1).v)
    IN  Inserted(first, PreparedForInsert(AnalysedSession, "no_key", Raise, 2).v)

\* the update_data of the update_session call, and the sessionId it names
WriterUpdates ==
    { [sessionName |-> S("Renamed")],
      [duration |-> I(9), notes |-> S("reviewed")] }

WriterTargets == {"s1", "s3"}

NoLocals == [sid |-> Null, data |-> <<>>, read |-> <<>>, n |-> 0, at |-> 0,
             targets |-> {}, result |-> Null]

WritersInit ==
    /\ NormIdle
    /\ FillIdle
    /\ IngestIdle
    /\ RegisterIdle
    /\ UploadIdle
    /\ SnapshotIdle
    /\ store = StoredAtStart
    /\ clock = 3
    /\ indexed = TRUE
    /\ reply = NoReply
    /\ wpc = [w \in Writers |-> "start"]
    /\ wlocal = [w \in Writers |-> NoLocals]

\* a step of writer w that writes docs at the current time
WriterWrote(w, pc, docs, locals) ==
    /\ store' = docs
    /\ clock' = clock + 1
    /\ wpc' = [wpc EXCEPT ![w] = pc]
    /\ wlocal' = [wlocal EXCEPT ![w] = locals]
    /\ UNCHANGED <<indexed, normVars, fillVars, ingestVars, registerVars, uploadVars,
                   snapshotVars>>

\* a step of writer w that only reads
WriterRead(w, pc, locals) ==
    /\ wpc' = [wpc EXCEPT ![w] = pc]
    /\ wlocal' = [wlocal EXCEPT ![w] = locals]
    /\ UNCHANGED <<store, clock, indexed, reply, normVars, fillVars, ingestVars, registerVars,
                   uploadVars, snapshotVars>>

\* the fields of new that differ from the ones of old
Changed(old, new) == {k \in DOMAIN new : k \notin DOMAIN old \/ new[k] # old[k]}

\* Session.update_session(sid, update_data), one find_one_and_update
WriterUpdate ==
    \E sid \in WriterTargets, update_data \in WriterUpdates :
    \E o \in {update_session(store, S(sid), update_data, clock, indexed, TRUE)} :
        /\ wpc["update"] = "start"
        /\ WriterWrote("update", "done", o.docs,
                       [NoLocals EXCEPT !.sid = S(sid), !.data = update_data, !.at = clock,
                                        !.targets = DOMAIN update_data \cup {"updated_at"},
                                        !.result = o.result])
        /\ reply' = Reply("update_session", "returned", S(sid), FindOne(store, S(sid)) # 0,
                          FALSE, o.result)

\* migrate_all_sessions, migrate_sessions.py 138-142: the sessions are read
MigrateRead ==
    /\ wpc["migrate"] = "start"
    /\ WriterRead("migrate", "read", [NoLocals EXCEPT !.read = store, !.n = 1])

\* migrate_all_sessions, migrate_sessions.py 159: migrate_session on the next
\* session that was read
MigrateWrite ==
    /\ wpc["migrate"] = "read"
    /\ \E g \in Generations :
        \E session_doc \in {wlocal["migrate"].read[wlocal["migrate"].n]} :
        \E enriched \in {Enriched(session_doc, g.env, g.resp, clock)} :
        \E o \in {migrate_session(store, session_doc, enriched, indexed, TRUE)} :
            /\ WriterWrote("migrate",
                           IF wlocal["migrate"].n = Len(wlocal["migrate"].read)
                           THEN "done" ELSE "read",
                           o.docs,
                           [wlocal["migrate"] EXCEPT
                               !.n = @ + 1, !.at = clock, !.sid = SessionIdOf(session_doc),
                               !.data = enriched.v,
                               !.targets = Changed(session_doc, enriched.v),
                               !.result = o.result])
            /\ reply' = Reply("migrate_session", "returned", SessionIdOf(session_doc), TRUE,
                              FALSE, o.result)

\* backfill, backfill_timelines.py 41: find_sessions_to_fix
BackfillRead ==
    /\ wpc["backfill"] = "start"
    /\ WriterRead("backfill",
                  IF \E i \in 1..Len(store) : NeedsBackfill(store[i]) THEN "read" ELSE "done",
                  [NoLocals EXCEPT
                      !.read = SelectSeq(store, NeedsBackfill), !.n = 1])

\* backfill, backfill_timelines.py 43-82: the next session that was read
BackfillWrite ==
    /\ wpc["backfill"] = "read"
    /\ \E files \in BackfillFiles :
        \E s \in {wlocal["backfill"].read[wlocal["backfill"].n]} :
        \E o \in {BackfillFrom(1, <<s>>, store, <<files>>, clock, indexed, TRUE)} :
            /\ WriterWrote("backfill",
                           IF o.error # "" \/ wlocal["backfill"].n = Len(wlocal["backfill"].read)
                           THEN "done" ELSE "read",
                           o.docs,
                           [wlocal["backfill"] EXCEPT
                               !.n = @ + 1, !.at = clock, !.sid = SessionIdOf(s),
                               !.targets = IF o.docs = store THEN {}
                                           ELSE {"timeline", "metrics", "weakMoments", "analysis",
                                                 "diarization", "videoUrl", "updated_at"}])
            /\ reply' = Reply("backfill", IF o.error = "" THEN "returned" ELSE "raised",
                              SessionIdOf(s), TRUE, FALSE, Null)

\* seed_sessions.py 72: existing = Session.find_by_sessionId(...)
SeedFind ==
    \E key \in WriterTargets, obj \in SeedObjects :
        /\ wpc["seed"] = "start"
        /\ WriterRead("seed", "found",
                      [NoLocals EXCEPT
                          !.sid = S(key), !.data = SeedDocument(key, obj.v, S("m1")),
                          !.result = find_by_sessionId(store, S(key))])

\* seed_sessions.py 73-86 with --update: the existing session is updated with
\* the document of the data file, a new one is created
SeedWrite ==
    /\ wpc["seed"] = "found"
    /\ \E doc \in {PreparedForInsert(M(wlocal["seed"].data), "no_key", Raise, clock)} :
        \E o \in {IF Truthy(wlocal["seed"].result)
                  THEN update_session(store, wlocal["seed"].sid, wlocal["seed"].data, clock,
                                      indexed, TRUE)
                  ELSE IF IsRaise(doc) \/ InsertError(store, doc.v, indexed, TRUE) # ""
                  THEN Outcome(store, "", Null)
                  ELSE Outcome(Inserted(store, doc.v), "", CreatedSession(store, doc.v))} :
            /\ WriterWrote("seed", "done", o.docs,
                           [wlocal["seed"] EXCEPT
                               !.at = clock,
                               !.targets = IF Truthy(wlocal["seed"].result)
                                           THEN DOMAIN wlocal["seed"].data \cup {"updated_at"}
                                           ELSE {}])
            /\ reply' = Reply("seed_sessions", IF o.error = "" THEN "returned" ELSE "raised",
                              wlocal["seed"].sid, Truthy(wlocal["seed"].result),
                              Len(o.docs) > Len(store), o.result)

WritersNext ==
    \/ WriterUpdate \/ MigrateRead \/ MigrateWrite \/ BackfillRead \/ BackfillWrite
    \/ SeedFind \/ SeedWrite

SpecWriters == WritersInit /\ [][WritersNext]_vars

---------------------------------------------------------------------------
(* The register run: concurrent POST /api/auth/register requests, app.py     *)
(* 449-513. Flask serves each request on its own thread, so the check of the *)
(* email and the insert of the user are two steps of a request.              *)

Requests == {"r1", "r2", "r3"}

\* the JSON bodies of the requests
RegisterBodies ==
    { [name |-> "Ada", email |-> " Ada@X.io ", password |-> "secret1", role |-> "Mentor"],
      [name |-> "Ada L", email |-> "ada@x.io", password |-> "secret2", role |-> "student"],
      [name |-> "Bob", email |-> "bob@x.io", password |-> "pw", role |-> "student"],
      [name |-> "Bob", email |-> "bob@x.io", password |-> "secret3", role |-> "admin"] }

\* s.strip().lower() on the strings of the bodies
StripLower(s) ==
    CASE s = " Ada@X.io " -> "ada@x.io"
      [] s = "Mentor" -> "mentor"
      [] OTHER -> s

MinPasswordLen == 6

\* app.py 463-470: the validation of the body, "" when it passes
RegisterError(body) ==
    IF body.name = "" \/ StripLower(body.email) = "" \/ body.password = ""
       \/ StripLower(body.role) = ""
    THEN "required"
    ELSE IF Len(body.password) < MinPasswordLen THEN "password"
    ELSE IF StripLower(body.role) \notin {"student", "mentor", "university"} THEN "role"
    ELSE ""

\* User.find_by_email, models.py 60-73
find_by_email(docs, email) == \E i \in 1..Len(docs) : docs[i].email = email

\* User.create_user, models.py 32-58: the document insert_one is given
UserDoc(name, email, role, now) ==
    [name |-> name, email |-> email, role |-> role, created_at |-> now, is_active |-> TRUE]

NoRequest == [name |-> "", email |-> "", role |-> "", status |-> ""]

RegisterInit ==
    /\ NormIdle
    /\ FillIdle
    /\ IngestIdle
    /\ WritersIdle
    /\ UploadIdle
    /\ SnapshotIdle
    /\ store = <<>>
    /\ clock = 0
    /\ reply = NoReply
    /\ indexed \in BOOLEAN    \* init_db built the unique index on email, or failed
    /\ users = <<>>
    /\ rpc = [r \in Requests |-> "start"]
    /\ rlocal = [r \in Requests |-> NoRequest]

RegisterStep(r, pc, locals, docs) ==
    /\ rpc' = [rpc EXCEPT ![r] = pc]
    /\ rlocal' = [rlocal EXCEPT ![r] = locals]
    /\ users' = docs
    /\ UNCHANGED <<storeVars, normVars, fillVars, ingestVars, writerVars, uploadVars,
                   snapshotVars>>

\* app.py 452-475: the body is validated and the email looked up
RegisterCheck ==
    \E r \in Requests, body \in RegisterBodies :
        /\ rpc[r] = "start"
        /\ IF RegisterError(body) # ""
           THEN RegisterStep(r, "done", [NoRequest EXCEPT !.status = "400"], users)
           ELSE IF find_by_email(users, StripLower(body.email))
           THEN RegisterStep(r, "done",
                             [NoRequest EXCEPT !.email = StripLower(body.email),
                                               !.status = "409"], users)
           ELSE RegisterStep(r, "checked",
                             [name |-> body.name, email |-> StripLower(body.email),
                              role |-> StripLower(body.role), status |-> ""], users)

\* app.py 477-513: User.create_user inserts; an insert the unique index
\* rejects raises and the request answers 500
RegisterCreate ==
    \E r \in Requests :
        /\ rpc[r] = "checked"
        /\ IF indexed /\ find_by_email(users, rlocal[r].email)
           THEN RegisterStep(r, "done", [rlocal[r] EXCEPT !.status = "500"], users)
           ELSE RegisterStep(r, "done", [rlocal[r] EXCEPT !.status = "201"],
                             Append(users, UserDoc(rlocal[r].name, rlocal[r].email,
                                                   rlocal[r].role, Len(users))))

RegisterNext == RegisterCheck \/ RegisterCreate

SpecRegister == RegisterInit /\ [][RegisterNext]_vars

---------------------------------------------------------------------------
(* The upload run: concurrent analyze requests keep the file-based list of   *)
(* uploaded sessions, app.py 1824-1851. The file is loaded, the summary is   *)
(* put in front and the file is written again; nothing locks the file        *)
(* between the load and the save.                                            *)

Uploads == {"session_a", "session_b", "session_c"}

\* the metrics of the analysed session: name and score
UploadMetrics ==
    { <<>>,
      <<[name |-> "Clarity", score |-> 72], [name |-> "Overall", score |-> 64]>>,
      <<[name |-> "Clarity", score |-> 72], [name |-> "Pacing", score |-> 75]>> }

\* app.py 1838-1845: the score of the summary, None without metrics
SummaryScore(metrics) ==
    LET overall_metrics == SelectSeq(metrics, LAMBDA m : m.name = "Overall")
    IN  IF metrics = <<>> THEN Null
        ELSE IF overall_metrics # <<>> THEN I(overall_metrics[1].score)
        ELSE I(SumSeq([i \in 1..Len(metrics) |-> metrics[i].score]) \div Len(metrics))

\* app.py 1829-1845: session_summary
SessionSummary(session_id, metrics) ==
    [id |-> session_id, sessionId |-> session_id, score |-> SummaryScore(metrics)]

NoUpload == [sessions_list |-> <<>>, session_summary |-> Null]

UploadInit ==
    /\ NormIdle
    /\ FillIdle
    /\ IngestIdle
    /\ StoreIdle
    /\ WritersIdle
    /\ RegisterIdle
    /\ SnapshotIdle
    /\ uploaded = <<>>
    /\ upc = [u \in Uploads |-> "start"]
    /\ ulocal = [u \in Uploads |-> NoUpload]

\* app.py 1826-1827 with load_uploaded_sessions, 1099-1106
LoadUploaded ==
    \E u \in Uploads, metrics \in UploadMetrics :
        /\ upc[u] = "start"
        /\ upc' = [upc EXCEPT ![u] = "loaded"]
        /\ ulocal' = [ulocal EXCEPT ![u] = [sessions_list |-> uploaded,
                                            session_summary |-> SessionSummary(u, metrics)]]
        /\ UNCHANGED <<uploaded, storeVars, normVars, fillVars, ingestVars, writerVars,
                       registerVars, snapshotVars>>

\* app.py 1847-1849 with save_uploaded_sessions, 1108-1111
SaveUploaded ==
    \E u \in Uploads :
        /\ upc[u] = "loaded"
        /\ upc' = [upc EXCEPT ![u] = "done"]
        /\ uploaded' = <<ulocal[u].session_summary>> \o ulocal[u].sessions_list
        /\ UNCHANGED <<ulocal, storeVars, normVars, fillVars, ingestVars, writerVars,
                       registerVars, snapshotVars>>

UploadNext == LoadUploaded \/ SaveUploaded

SpecUpload == UploadInit /\ [][UploadNext]_vars

---------------------------------------------------------------------------
(* The snapshot run: GET /api/mentor/<mentor_id>/snapshot, app.py 767-880,   *)
(* over the sessions of the mentors. A session is the sequence of its metric *)
(* scores; averages are kept as exact fractions.                             *)

Mentors == {"m1", "m2"}
MaxSessions == 2

\* the metric scores of a session: none, one metric, two metrics
SessionScores == { <<>>, <<100>>, <<40, 60>> }

SessionLists ==
    UNION { [1..n -> SessionScores] : n \in 0..MaxSessions }

Frac(n, d) == [n |-> n, d |-> d]
FracEq(a, b) == a.n * b.d = b.n * a.d
FracGt(a, b) == a.n * b.d > b.n * a.d

RECURSIVE FracSum(_)
FracSum(q) ==
    IF q = <<>> THEN Frac(0, 1)
    ELSE LET h == Head(q)
             t == FracSum(Tail(q))
         IN  Frac(h.n * t.d + t.n * h.d, h.d * t.d)

\* sum(q) / len(q), 0 for an empty list
FracMean(q) ==
    IF q = <<>> THEN Frac(0, 1) ELSE Frac(FracSum(q).n, FracSum(q).d * Len(q))

\* app.py 793-801: the session scores of the sessions with scored metrics
AllScores(sessions) ==
    LET scored == SelectSeq(sessions, LAMBDA metrics : metrics # <<>>)
    IN  [i \in 1..Len(scored) |-> Frac(SumSeq(scored[i]), Len(scored[i]))]

\* app.py 836-851: the average of all metric scores of the sessions of a
\* mentor, pooled
MentorAvgScore(sessions) ==
    LET mentor_metrics == Flatten(sessions)
    IN  Frac(SumSeq(mentor_metrics), Len(mentor_metrics))

\* User.find({'role': 'mentor'}), app.py 832: the class User of models.py
\* 29-150 has no attribute find, the call raises AttributeError
User_find(all) == Raise

\* app.py 854-858: the place of overall_score in the scores sorted descending
\* (the index of the first equal score is the number of greater ones), the
\* last place when no score equals it, and the percentile of the place
PercentileOfRank(scores_list, overall_score) ==
    LET N == Len(scores_list)
        greater == {i \in 1..N : FracGt(scores_list[i], overall_score)}
        current_mentor_rank ==
            IF \E i \in 1..N : FracEq(scores_list[i], overall_score)
            THEN Cardinality(greater) + 1 ELSE N
        lowered == 100 - ((current_mentor_rank - 1) * 100) \div N
    IN  IF lowered > 1 THEN lowered ELSE 1

\* the mentors with a scored metric, in the order of the users collection
ScoredMentors(all) ==
    SelectSeq(<<"m1", "m2">>, LAMBDA m : Flatten(all[m]) # <<>>)

\* app.py 829-865: the percentile among the peers; any exception of the block
\* gives 100
PercentileAmongPeers(all, overall_score) ==
    LET scored == ScoredMentors(all)
        mentor_scores_list == [i \in 1..Len(scored) |-> MentorAvgScore(all[scored[i]])]
    IN  IF IsRaise(User_find(all)) THEN 100
        ELSE IF mentor_scores_list # <<>>
        THEN PercentileOfRank(mentor_scores_list, overall_score)
        ELSE 100

\* get_mentor_snapshot, app.py 767-880
get_mentor_snapshot(all, mentor_id) ==
    LET sessions == all[mentor_id]
        overall_score == FracMean(AllScores(sessions))
    IN  IF sessions = <<>>
        THEN [mentorId |-> mentor_id, overall_score |-> Frac(0, 1),
              percentileAmongPeers |-> 0, sessionsCount |-> 0]
        ELSE [mentorId |-> mentor_id, overall_score |-> overall_score,
              percentileAmongPeers |-> PercentileAmongPeers(all, overall_score),
              sessionsCount |-> Len(sessions)]

SnapshotInit ==
    /\ NormIdle
    /\ FillIdle
    /\ IngestIdle
    /\ StoreIdle
    /\ WritersIdle
    /\ RegisterIdle
    /\ UploadIdle
    /\ peers \in [Mentors -> SessionLists]
    /\ snapshot = Null

GetMentorSnapshot ==
    \E mentor_id \in Mentors :
        /\ snapshot' = get_mentor_snapshot(peers, mentor_id)
        /\ UNCHANGED <<peers, storeVars, normVars, fillVars, ingestVars, writerVars,
                       registerVars, uploadVars>>

SnapshotNext == GetMentorSnapshot

SpecSnapshot == SnapshotInit /\ [][SnapshotNext]_vars

---------------------------------------------------------------------------
(* Properties of the normalizer *)

Returned == npc \in {"normalized", "renormalized", "projected"}

FiveKeys == {"audio", "video", "transcript", "scoreDips", "scorePeaks"}

\* the keys of the timeline mapping of a payload, {} when it has none
TimelineKeysOf(doc) ==
    IF IsMap(doc) /\ "timeline" \in DOMAIN doc.v /\ IsMap(doc.v["timeline"])
    THEN DOMAIN doc.v["timeline"].v
    ELSE {}

\* the metrics of a record as a sequence, <<>> when it has none
MetricsOf(doc) ==
    IF IsMap(doc) /\ "metrics" \in DOMAIN doc.v /\ IsList(doc.v["metrics"])
    THEN doc.v["metrics"].v
    ELSE <<>>

IsEnvelope(x) ==
    IsMap(x) /\ DOMAIN x.v \cap {"$numberInt", "$numberLong", "$date", "$oid"} # {}

RECURSIVE HasEnvelope(_)
HasEnvelope(x) ==
    \/ IsEnvelope(x)
    \/ IsMap(x) /\ \E k \in DOMAIN x.v : HasEnvelope(x.v[k])
    \/ IsList(x) /\ \E i \in 1..Len(x.v) : HasEnvelope(x.v[i])

\* C1: Session.prepare_for_insert never raises, whatever the raw payload:
\* malformed or missing data always yields a returned record.
C1_NeverRaises == npc # "raised"

C6_Idempotent == npc = "renormalized" => out2 = out

\* C7: after prepare_for_insert every metric's score lies in [0, 100] and its
\* confidenceInterval [low, high] satisfies 0 <= low <= high <= 100.
C7_ScoresClamped ==
    Returned =>
        \A i \in 1..Len(MetricsOf(out)) :
            LET m == MetricsOf(out)[i].v
            IN  /\ m["score"].t = "int" /\ m["score"].v \in 0..100
                /\ Len(m["confidenceInterval"].v) = 2
                /\ 0 <= m["confidenceInterval"].v[1].v
                /\ m["confidenceInterval"].v[1].v <= m["confidenceInterval"].v[2].v
                /\ m["confidenceInterval"].v[2].v <= 100

\* C9: prepare_for_insert replaces every tagged envelope ($numberInt,
\* $numberLong, $date, $oid) at any nesting depth by its native value, so the
\* output holds no envelope mapping; a duration {"$numberInt": "42"} yields the
\* integer 42 and an empty metrics list stays empty.
C9_NoEnvelopeLeft ==
    Returned =>
        /\ ~HasEnvelope(out)
        /\ (IsMap(raw) /\ Get(raw.v, "duration") = Env("$numberInt", S("42")))
               => out.v["duration"] = I(42)
        /\ (IsMap(raw) /\ Get(raw.v, "metrics") = L(<<>>)) => out.v["metrics"] = L(<<>>)

\* C10: after prepare_for_insert the duration is always a non-negative integer,
\* 0 when the input cannot be coerced.
C10_DurationNonNegative ==
    Returned => /\ "duration" \in DOMAIN out.v
                /\ out.v["duration"].t = "int"
                /\ out.v["duration"].v >= 0

---------------------------------------------------------------------------
(* Properties of the gap filler *)

NonEmpty(x) == IsList(x) /\ Len(x.v) > 0

\* a metric after the call: what it held is kept, only an empty whatHelped or
\* whatHurt may have been given a value
MetricKept(pre, post) ==
    /\ DOMAIN post = DOMAIN pre
    /\ \A k \in DOMAIN pre \ {"whatHelped", "whatHurt"} : post[k] = pre[k]
    /\ NonEmpty(pre["whatHelped"]) => post["whatHelped"] = pre["whatHelped"]
    /\ NonEmpty(pre["whatHurt"]) => post["whatHurt"] = pre["whatHurt"]

MetricsKept(pre, post) ==
    Len(pre) > 0 =>
        /\ Len(post) = Len(pre)
        /\ \A i \in 1..Len(pre) : IsMap(post[i]) /\ MetricKept(pre[i].v, post[i].v)

RecordKept(pre, post) ==
    /\ DOMAIN post = DOMAIN pre
    /\ \A k \in DOMAIN pre \ {"timeline", "metrics", "weakMoments"} : post[k] = pre[k]
    /\ DOMAIN post["timeline"].v = DOMAIN pre["timeline"].v
    /\ \A k \in FiveKeys :
           NonEmpty(pre["timeline"].v[k]) => post["timeline"].v[k] = pre["timeline"].v[k]
    /\ IsList(post["metrics"]) /\ MetricsKept(pre["metrics"].v, post["metrics"].v)
    /\ NonEmpty(pre["weakMoments"]) => post["weakMoments"] = pre["weakMoments"]

\* C2: the gap filler never overwrites a non-empty field: whatever the
\* collaborator answers, each timeline sub-sequence, the metrics, each metric's
\* whatHelped / whatHurt and weakMoments that was non-empty before the call is
\* the same after it, and nothing else of the record changes.
C2_NeverOverwrites ==
    /\ fpc = "filled" => RecordKept(fdoc.v, fres.doc)
    /\ fpc = "feedback" => MetricsKept(fdoc.v["metrics"].v, fres.doc)

\* a record with audio present and video missing was filled from an answer
\* that offered both: video was supplied, audio kept
C2_Witness ==
    /\ fpc = "filled" /\ fres.calls = 1 /\ ~fres.failed
    /\ NonEmpty(fdoc.v["timeline"].v["audio"])
    /\ ~NonEmpty(fdoc.v["timeline"].v["video"])
    /\ fresp = Text(<<Json(WellShaped)>>)
    /\ fres.doc["timeline"].v["video"] = GenVideo
    /\ fres.doc["timeline"].v["audio"] = OneAudio

\* C3: gap filling is all-or-nothing: when anything fails during synthesis,
\* parsing or merging, fill_missing_fields_with_gemini returns the record
\* exactly as it was, never a partially merged one.
C3_AllOrNothing ==
    (fpc = "filled" /\ fres.failed) => fres.doc = fdoc.v

\* every timeline sub-sequence and metrics non-empty, every metric with
\* non-empty whatHelped and whatHurt
FullyPopulated(doc) ==
    /\ \A k \in FiveKeys : NonEmpty(doc["timeline"].v[k])
    /\ NonEmpty(doc["metrics"])
    /\ \A i \in 1..Len(doc["metrics"].v) :
           /\ NonEmpty(doc["metrics"].v[i].v["whatHelped"])
           /\ NonEmpty(doc["metrics"].v[i].v["whatHurt"])

\* C4: on a fully populated record fill_missing_fields_with_gemini returns the
\* record unchanged and issues no generate request.
C4_NoOpWhenPopulated ==
    (fpc = "filled" /\ FullyPopulated(fdoc.v)) =>
        /\ fres.doc = fdoc.v
        /\ fres.calls = 0
        /\ fresp = Null

\* a fully populated record went through the gap filler with the collaborator
\* set up and reachable
C4_Witness ==
    /\ fpc = "filled" /\ fenv = "ok"
    /\ FullyPopulated(fdoc.v)
    /\ fres.calls = 0

---------------------------------------------------------------------------
(* Properties of the ingest adapters *)

\* an integer score in [0, 100] with the band [max(0, s - 5), min(100, s + 5)]
BandedInteger(m) ==
    /\ IsMap(m)
    /\ m.v["score"].t = "int"
    /\ m.v["score"].v \in 0..100
    /\ m.v["confidenceInterval"] =
          L(<<I(Max(0, m.v["score"].v - 5)), I(Min(100, m.v["score"].v + 5))>>)
    /\ m.v["confidenceInterval"].v[1].v <= m.v["confidenceInterval"].v[2].v

\* C8: every metric an ingest adapter builds has an integer score clamped to
\* [0, 100] and the confidence interval [max(0, s - 5), min(100, s + 5)], so
\* its low bound is at most its high bound and both are in [0, 100].
C8_AdaptersBuildClampedMetrics ==
    (ipc = "built" /\ IsList(imetrics))
        => \A i \in 1..Len(imetrics.v) : BandedInteger(imetrics.v[i])

---------------------------------------------------------------------------
(* Properties of the normalizer: elements of the timeline and of metrics *)

\* the canonical keys of an element of each kind, with the value a missing
\* sub-field gets
KindDefaults(k) ==
    CASE k = "audio" ->
           [startTime |-> I(0), endTime |-> I(0), pace |-> I(0), pauses |-> I(0),
            type |-> S("normal"), message |-> S("")]
      [] k = "video" ->
           [startTime |-> I(0), endTime |-> I(0), eyeContact |-> F(0), gestures |-> I(0),
            type |-> S("good"), message |-> S("")]
      [] k = "transcript" ->
           [startTime |-> I(0), endTime |-> I(0), text |-> S(""), keyPhrases |-> L(<<>>)]
      [] OTHER ->
           [timestamp |-> I(0), score |-> I(0), message |-> S(""), type |-> S("")]

\* the spellings under which a sub-field of kind k is accepted
Spellings(k, f) ==
    CASE f = "startTime" -> {"startTime", "start"}
      [] f = "endTime" -> {"endTime", "end"}
      [] f = "eyeContact" -> {"eyeContact", "eye_contact"}
      [] f = "text" -> {"text", "transcript"}
      [] f = "keyPhrases" -> {"keyPhrases", "key_phrases"}
      [] f = "timestamp" -> {"timestamp", "time", "ts"}
      [] OTHER -> {f}

\* the elements handed in under timeline[k], envelopes unwrapped
InputElements(k) ==
    LET u == _unwrap(Or(raw, M(EmptyMap)))
        tl == IF IsMap(u) THEN Get(u.v, "timeline") ELSE Null
    IN  IF IsMap(tl) /\ k \in DOMAIN tl.v THEN ElementsOf(tl.v[k]) ELSE <<>>

SubfieldMissing(x, k, f) == ~IsMap(x) \/ Spellings(k, f) \cap DOMAIN x.v = {}

\* C11: prepare_for_insert maps every timeline element to a record with
\* exactly the canonical keys of its kind, and a sub-field the element lacks
\* gets 0, '' or [], the type tag 'normal' for audio and 'good' for video.
C11_ElementsCoerced ==
    npc = "normalized" =>
        \A k \in FiveKeys :
            LET ins == InputElements(k)
                outs == out.v["timeline"].v[k].v
            IN  /\ Len(outs) = Len(ins)
                /\ \A i \in 1..Len(outs) :
                      /\ IsMap(outs[i])
                      /\ DOMAIN outs[i].v = DOMAIN KindDefaults(k)
                      /\ \A f \in DOMAIN KindDefaults(k) :
                            (i <= Len(ins) /\ SubfieldMissing(ins[i], k, f))
                                => outs[i].v[f] = KindDefaults(k)[f]

\* the audio element {start: 0, end: 10} was normalized to the full record
C11_Witness ==
    /\ npc = "normalized"
    /\ InputElements("audio") = <<M([start |-> I(0), end |-> I(10)])>>
    /\ out.v["timeline"].v["audio"] =
          L(<<M([startTime |-> I(0), endTime |-> I(10), pace |-> I(0), pauses |-> I(0),
                 type |-> S("normal"), message |-> S("")])>>)

\* the elements handed in under metrics, envelopes unwrapped
InputMetrics ==
    LET u == _unwrap(Or(raw, M(EmptyMap)))
    IN  IF IsMap(u) THEN ElementsOf(Or(GetD(u.v, "metrics", L(<<>>)), L(<<>>))) ELSE <<>>

\* a list of dicts, or absent
ListOfDicts(f, k) ==
    k \in DOMAIN f => (IsList(f[k]) /\ \A i \in 1..Len(f[k].v) : IsMap(f[k].v[i]))

\* a session document whose timeline (when given) is a dict, whose timeline
\* sub-sequences and metrics (when given) are lists of dicts
WellFormedDoc(x) ==
    /\ IsMap(x)
    /\ ~IsRaise(_unwrap(x))
    /\ ListOfDicts(x.v, "metrics")
    /\ "timeline" \in DOMAIN x.v =>
          (IsMap(x.v["timeline"]) /\ \A k \in FiveKeys : ListOfDicts(x.v["timeline"].v, k))

\* what identifies an element of a timeline sub-sequence in the normalized record
PositionKey(k) ==
    IF k \in {"scoreDips", "scorePeaks"} THEN "timestamp" ELSE "startTime"

NormOfKind(k, x) ==
    CASE k = "audio" -> NormAudio(x)
      [] k = "video" -> NormVideo(x)
      [] k = "transcript" -> NormTranscript(x)
      [] OTHER -> NormScoreItem(x)

\* C12: for a well-formed session document prepare_for_insert returns, with
\* one element per input element in each of the five timeline sub-sequences
\* and in metrics, in the input's order; normalize_for_api of that record
\* returns with the same counts and the same order.
C12_CountAndOrderKept ==
    (Returned /\ WellFormedDoc(raw)) =>
        /\ \A k \in FiveKeys :
              LET ins == InputElements(k)
                  outs == out.v["timeline"].v[k].v
              IN  /\ Len(outs) = Len(ins)
                  /\ \A i \in 1..Len(outs) : i <= Len(ins) => outs[i] = NormOfKind(k, ins[i])
        /\ Len(out.v["metrics"].v) = Len(InputMetrics)
        /\ \A i \in 1..Len(out.v["metrics"].v) :
              i <= Len(InputMetrics) => out.v["metrics"].v[i] = NormMetric(InputMetrics[i])
        /\ npc = "projected" =>
              /\ IsMap(api)
              /\ DOMAIN api.v # {}
              /\ \A k \in FiveKeys :
                    /\ Len(api.v["timeline"].v[k].v) = Len(InputElements(k))
                    /\ \A i \in 1..Len(api.v["timeline"].v[k].v) :
                          i <= Len(out.v["timeline"].v[k].v) =>
                              api.v["timeline"].v[k].v[i].v[PositionKey(k)]
                                  = out.v["timeline"].v[k].v[i].v[PositionKey(k)]
              /\ Len(api.v["metrics"].v) = Len(InputMetrics)
              /\ \A i \in 1..Len(api.v["metrics"].v) :
                    i <= Len(out.v["metrics"].v) =>
                        api.v["metrics"].v[i].v["name"] = out.v["metrics"].v[i].v["name"]

\* a well-formed document with two different metrics, one whose score
\* normalizes to 0, was normalized and projected
C12_Witness ==
    /\ npc = "projected"
    /\ WellFormedDoc(raw)
    /\ Len(InputMetrics) = 2
    /\ InputMetrics[1] # InputMetrics[2]
    /\ \E i \in 1..2 : out.v["metrics"].v[i].v["score"] = I(0)
    /\ Len(api.v["metrics"].v) = 2

Projected == npc \in {"projected", "projected_raw"} /\ ~IsRaise(api)

\* C13: the public view normalize_for_api returns always contains a timeline
\* with the five sequences, a metrics sequence and a weakMoments sequence,
\* whatever fields the document has.
C13_PublicViewShape ==
    Projected =>
        /\ IsMap(api)
        /\ {"timeline", "metrics", "weakMoments"} \subseteq DOMAIN api.v
        /\ IsMap(api.v["timeline"])
        /\ \A k \in FiveKeys :
              k \in DOMAIN api.v["timeline"].v /\ IsList(api.v["timeline"].v[k])
        /\ IsList(api.v["metrics"])
        /\ IsList(api.v["weakMoments"])

---------------------------------------------------------------------------
(* Properties of the collection run *)

BreakdownOfFound ==
    reply.op = "get_session_breakdown" /\ reply.found /\ reply.status = "200"

\* C14: every answer of the breakdown read path for a session found in the
\* store leaves out the storage-internal _id and has an id field equal to the
\* sessionId of the document.
C14_BreakdownAliasesId ==
    BreakdownOfFound =>
        /\ "_id" \notin DOMAIN reply.body.v
        /\ Get(reply.body.v, "id") = reply.sid

BreakdownOfAbsent == reply.op = "get_session_breakdown" /\ ~reply.found

\* C17: when the requested sessionId is absent from the store, the breakdown
\* endpoint answers 404 and never answers with session data for that id.
C17_AbsentIsNotFound ==
    BreakdownOfAbsent => reply.status = "404"

\* C15: whatever create_session, update_session, seed, backfill and
\* migrate_session do, no two stored documents share a sessionId, and a stored
\* document keeps the sessionId it was inserted with.
C15_SessionIdUniqueAndImmutable ==
    [][ /\ \A i, j \in 1..Len(store') :
              SessionIdOf(store'[i]) = SessionIdOf(store'[j]) => i = j
        /\ \A i \in 1..Len(store) :
              i <= Len(store') /\ SessionIdOf(store'[i]) = SessionIdOf(store[i]) ]_vars

MetricInvariant(m) ==
    /\ IsMap(m)
    /\ Get(m.v, "confidenceInterval") # Null
    /\ IsList(Get(m.v, "whatHelped"))
    /\ IsList(Get(m.v, "whatHurt"))

PersistedByCreate == reply.op = "create_session" /\ reply.persisted

\* C16: every document create_session persists has, in each of its metrics, a
\* non-null confidenceInterval and whatHelped and whatHurt as sequences, also
\* when the metrics came from the generator.
C16_StoredMetricsComplete ==
    PersistedByCreate =>
        /\ IsList(Get(reply.body.v, "metrics"))
        /\ \A i \in 1..Len(Get(reply.body.v, "metrics").v) :
              MetricInvariant(Get(reply.body.v, "metrics").v[i])

\* C18: a failed insert is surfaced: no ingest endpoint answers 201 with a
\* session body for a session that was not persisted.
C18_InsertFailureSurfaced ==
    reply.status = "201" => reply.persisted

Stamped(doc) ==
    /\ Get(doc, "created_at").t = "date"
    /\ Get(doc, "updated_at").t = "date"

\* C19: every stored session has created_at and updated_at from its creation
\* on; a later mutation of a stored session sets its updated_at to the time of
\* the mutation and leaves its created_at as it was, so updated_at never moves
\* backwards.
C19_TimestampsKept ==
    [][ /\ \A i \in 1..Len(store') : Stamped(store'[i])
        /\ \A i \in 1..Len(store) :
              /\ i <= Len(store')
              /\ Get(store'[i], "created_at") = Get(store[i], "created_at")
              /\ Get(store'[i], "updated_at").v >= Get(store[i], "updated_at").v
              /\ store'[i] # store[i] => Get(store'[i], "updated_at") = Date(clock) ]_vars

---------------------------------------------------------------------------
(* Properties of the normalizer: both spellings of a key *)

\* the keys of an element of kind k (or of a metric) that have a second
\* spelling, each with that spelling
Aliased(k) ==
    CASE k = "audio" -> {<<"startTime", "start">>, <<"endTime", "end">>}
      [] k = "video" -> {<<"startTime", "start">>, <<"endTime", "end">>,
                         <<"eyeContact", "eye_contact">>}
      [] k = "transcript" -> {<<"startTime", "start">>, <<"endTime", "end">>,
                              <<"keyPhrases", "key_phrases">>}
      [] OTHER -> {<<"whatHelped", "what_helped">>,
                   <<"confidenceInterval", "confidence_interval">>}

BothSpellings(x, pair) == IsMap(x) /\ {pair[1], pair[2]} \subseteq DOMAIN x.v

\* C20: when an element of the timeline or a metric carries both spellings of
\* a key, prepare_for_insert takes the value under the canonical spelling,
\* whatever it is: the result is the one of the element without the other
\* spelling.
C20_CanonicalSpellingWins ==
    npc = "normalized" =>
        /\ \A k \in {"audio", "video", "transcript"} :
              LET ins == InputElements(k)
                  outs == out.v["timeline"].v[k].v
              IN  \A i \in 1..Len(ins) : \A pair \in Aliased(k) :
                      (i <= Len(outs) /\ BothSpellings(ins[i], pair)) =>
                          outs[i].v[pair[1]]
                              = NormOfKind(k, M(Without(ins[i].v, pair[2]))).v[pair[1]]
        /\ \A i \in 1..Len(InputMetrics) : \A pair \in Aliased("metrics") :
              (i <= Len(out.v["metrics"].v) /\ BothSpellings(InputMetrics[i], pair)) =>
                  out.v["metrics"].v[i].v[pair[1]]
                      = NormMetric(M(Without(InputMetrics[i].v, pair[2]))).v[pair[1]]

---------------------------------------------------------------------------
(* Properties of the projector *)

\* the duration of the stated priority order: the explicit duration when it is
\* a number, else the one of the analysis payload, else the largest endTime of
\* the transcript, else 0
DurationByPriority(doc) ==
    LET explicit == Get(doc, "duration")
        analysis == Get(doc, "analysis")
        analysed == IF IsMap(analysis)
                    THEN Or(Get(analysis.v, "duration"), Get(analysis.v, "total_duration"))
                    ELSE Null
        transcript == TimelineIn(doc, "transcript")
    IN  IF IsNumber(explicit) THEN PyInt(explicit)
        ELSE IF IsNumber(analysed) /\ Truthy(analysed) THEN PyInt(analysed)
        ELSE IF IsList(transcript) /\ Truthy(transcript) THEN MaxEndTime(transcript)
        ELSE I(0)

\* a document whose timeline and metrics the projector gets through
ProjectedDirectly ==
    /\ npc = "projected_raw"
    /\ IsMap(raw)
    /\ Truthy(raw)
    /\ ~IsRaise(ApiTimeline(raw.v))
    /\ ~IsRaise(ApiMetrics(raw.v))

\* C21: normalize_for_api gives the explicit duration when it is numeric,
\* otherwise the duration (or total_duration) of the analysis payload,
\* otherwise the largest endTime of the transcript, otherwise 0.
C21_DurationPriority ==
    ProjectedDirectly =>
        /\ IsMap(api)
        /\ Get(api.v, "duration") = DurationByPriority(raw.v)

\* the document was projected directly and the normalizer returns on it
BothReturn(x) == IsMap(x) /\ Truthy(x) /\ ~IsRaise(prepare_for_insert(x))

\* C22: the projector applies the coercions of the normalizer: on a document
\* the normalizer returns on, normalize_for_api returns too, with the same
\* timeline elements and the same metrics as prepare_for_insert.
C22_SameCoercions ==
    (npc = "projected_raw" /\ BothReturn(raw)) =>
        /\ IsMap(api)
        /\ Get(api.v, "timeline") = Get(prepare_for_insert(raw).v, "timeline")
        /\ Get(api.v, "metrics") = Get(prepare_for_insert(raw).v, "metrics")

\* C23: the normalize_for_api in effect backfills metric feedback: with the
\* generator available, a projected metric with an empty whatHelped or
\* whatHurt comes back with the feedback the gap filler synthesizes for it.
C23_ProjectionBackfillsFeedback ==
    (npc \in {"projected", "projected_raw"} /\ IsMap(api) /\ "metrics" \in DOMAIN api.v) =>
        api.v["metrics"].v
            = fill_metric_feedback_with_gemini(api.v["metrics"].v, fenv, fresp).doc

---------------------------------------------------------------------------
(* Properties of the writers run *)

\* what the update_session call of the step did to the collection: the
\* matched document has the fields of update_data and updated_at replaced and
\* its other fields as before, the other documents are as before; without a
\* match nothing changes
UpdateFrame(before, after, call, now) ==
    LET i == FindOne(before, call.sid)
    IN  IF i = 0 THEN after = before /\ call.result = Null
        ELSE /\ Len(after) = Len(before)
             /\ \A j \in 1..Len(before) : (j # i /\ j <= Len(after)) => after[j] = before[j]
             /\ i <= Len(after) =>
                   /\ DOMAIN after[i] = DOMAIN before[i] \cup DOMAIN call.data
                                            \cup {"updated_at"}
                   /\ \A k \in DOMAIN after[i] :
                         after[i][k] = IF k = "updated_at" THEN Date(now)
                                       ELSE IF k \in DOMAIN call.data THEN call.data[k]
                                       ELSE before[i][k]

\* C24: update_session replaces, in the one stored document with the
\* sessionId, exactly the top-level fields of update_data and updated_at, each
\* as a whole value; every other field and every other stored document is
\* unchanged; without a document of that sessionId nothing is inserted and
\* None is returned.
C24_UpdateFrame ==
    [][ (wpc # <<>> /\ wpc["update"] = "start" /\ wpc'["update"] = "done") =>
            UpdateFrame(store, store', wlocal'["update"], clock) ]_vars

\* update_session alone renamed the first session next to a second one
C24_Witness ==
    /\ wpc # <<>>
    /\ wpc["update"] = "done"
    /\ wlocal["update"].sid = S("s1")
    /\ wlocal["update"].data = [sessionName |-> S("Renamed")]
    /\ Len(store) = 2
    /\ Get(store[1], "sessionName") = S("Renamed")
    /\ wpc["migrate"] = "start" /\ wpc["seed"] = "start" /\ wpc["backfill"] = "start"

\* the internal streaming path of a session of a mentor
StreamingPath(mentor, id) == S("/api/mentor/" \o mentor \o "/sessions/" \o id \o "/video")

\* the videoUrl of the document, when it is an internal streaming path, names
\* the document's own sessionId
NamesOwnSession(doc) ==
    \A mentor \in {"m1", "None"}, id \in SessionIds \cup {"s3", ThrowAwayId} :
        Get(doc, "videoUrl") = StreamingPath(mentor, id) => SessionIdOf(doc) = S(id)

\* C30: after backfill updates a stored session, the document's sessionId is
\* unchanged and its videoUrl, when it is an internal streaming path, names the
\* document's own sessionId, never the sessionId build_session made up for the
\* candidate record.
C30_BackfillSelfConsistent ==
    [][ (wpc # <<>> /\ wpc["backfill"] = "read" /\ wlocal'["backfill"].n = wlocal["backfill"].n + 1) =>
            /\ Len(store') = Len(store)
            /\ \A i \in 1..Len(store) :
                  i <= Len(store') =>
                      /\ SessionIdOf(store'[i]) = SessionIdOf(store[i])
                      /\ store'[i] # store[i] => NamesOwnSession(store'[i]) ]_vars

\* the writers that wrote in the step
Wrote(w) == wpc # <<>> /\ wlocal'[w] # wlocal[w] /\ clock' = clock + 1

\* C25: under any interleaving of the writers on a sessionId, writes are
\* last-write-wins per field: a writer changes, in the stored document, only
\* the fields it targets (the ones it sets to a new value), never a field it
\* merely read earlier, so an update to one field is not lost because another
\* writer was mutating a different field.
C25_LastWriteWinsPerField ==
    [][ \A w \in Writers :
            (Wrote(w) /\ Len(store') = Len(store)) =>
                \A i \in 1..Len(store) : \A k \in DOMAIN store[i] :
                    (k \in DOMAIN store'[i] /\ store'[i][k] # store[i][k])
                        => k \in wlocal'[w].targets ]_vars

---------------------------------------------------------------------------
(* Properties of the breakdown read path *)

\* the stored document the breakdown answered for
AnsweredFor == store[FindOne(store, reply.sid)]

\* C27: through the breakdown endpoint a stored session without a numeric
\* duration is reported with the duration the projector derives again, the
\* same value normalize_for_api gives for the stored document itself.
C27_BreakdownDurationRederived ==
    (BreakdownOfFound /\ FindOne(store, reply.sid) # 0
        /\ ~IsNumber(Get(AnsweredFor, "duration"))
        /\ ~IsRaise(normalize_for_api(M(AnsweredFor)))) =>
            Get(reply.body.v, "duration") = Get(normalize_for_api(M(AnsweredFor)).v, "duration")

---------------------------------------------------------------------------
(* Properties of the register run *)

RegisteredEmails == {"ada@x.io", "bob@x.io"}

\* the requests that were answered for the email with the status
AnsweredWith(email, status) ==
    {r \in DOMAIN rpc : rpc[r] = "done" /\ rlocal[r].email = email /\ rlocal[r].status = status}

\* C28: of the concurrent register requests for one email at most one is
\* answered 201 and at most one user document of the email is stored; every
\* other one is answered 409, never 201 and never 500.
C28_OneRegistrationPerEmail ==
    \A email \in RegisteredEmails :
        /\ Cardinality(AnsweredWith(email, "201")) <= 1
        /\ Cardinality({i \in 1..Len(users) : users[i].email = email}) <= 1
        /\ AnsweredWith(email, "500") = {}

---------------------------------------------------------------------------
(* Properties of the upload run *)

\* C29: after any interleaving of concurrent analyze requests the list of
\* uploaded sessions holds exactly one summary for each request that
\* completed; the load, insert at front and save of one request never drops
\* the entry another request wrote.
C29_OneSummaryPerRequest ==
    \A u \in DOMAIN upc :
        upc[u] = "done" =>
            Cardinality({i \in 1..Len(uploaded) : uploaded[i].sessionId = u}) = 1

---------------------------------------------------------------------------
(* Properties of the snapshot run *)

\* the mentors with at least one scored metric
Scored == {m \in Mentors : Flatten(peers[m]) # <<>>}

\* the rank of the mentor among the scored mentors, 1 for the highest average
RankOf(m) ==
    1 + Cardinality({p \in Scored :
                        FracGt(MentorAvgScore(peers[p]), MentorAvgScore(peers[m]))})

\* C26: for a mentor with a scored session percentileAmongPeers is
\* max(1, 100 - floor((r - 1) * 100 / N)) for the mentor's own rank r among
\* the N scored mentors; the highest of N mentors gets 100 and a lower one a
\* lower value.
C26_PercentileFromOwnRank ==
    (snapshot # Null /\ snapshot.mentorId \in Scored) =>
        LET r == RankOf(snapshot.mentorId)
            N == Cardinality(Scored)
            expected == 100 - ((r - 1) * 100) \div N
        IN  snapshot.percentileAmongPeers = IF expected > 1 THEN expected ELSE 1

=============================================================================
